---------------------------- MODULE Spec2Model ----------------------------
(***************************************************************************)
(* Delivery engine of the notifications service: the NOTIFY listener, the  *)
(* wake channel, the worker loop (run / process_all_pending), the          *)
(* per-notification state machine (process_one, process_broadcast,         *)
(* send_via_bus, send_via_push) and the Store operations it calls.         *)
(*                                                                         *)
(* The worker is one sequential task; it is modelled with a program        *)
(* counter that advances from one await point to the next.  The listener   *)
(* is a second task; producers, the bus, FCM and the database are the      *)
(* environment, whose answers are drawn from small sets.                   *)
(***************************************************************************)
EXTENDS Integers, Sequences, FiniteSets, TLC

(***************************************************************************)
(* Bounds of the model.                                                    *)
(***************************************************************************)
MaxRows == 2          \* rows producers insert during a run
MaxTime == 1          \* clock ticks
MaxNotify == 1        \* NOTIFY events not tied to an insert
MaxInbox == 2         \* NOTIFY events buffered in the listener's session
MaxFaults == 1        \* persistence errors the database injects
MaxWakeRows == 1      \* rows producers insert while the listener is modelled
MaxCallers == 2       \* get_access_token calls that can overlap
MaxIssued == 2        \* bearers the token endpoint issues during a run
MaxClock == 90        \* seconds of wall-clock time modelled
ClockStep == 30       \* seconds between two observations of the clock
max_retries == 2      \* Config.max_retries (MAX_RETRIES)
worker_batch_size == 1  \* Config.worker_batch_size (WORKER_BATCH_SIZE)
MaxHandlers == 2      \* WebSocket upgrades that run handle_connection
MaxTickets == 2       \* tickets ws_ticket_handler creates during a run
MaxTokenLen == 14     \* longest device token, in characters

(***************************************************************************)
(* Program constants.                                                      *)
(***************************************************************************)
WakeCapacity == 10    \* mpsc::channel::<()>(10)
SafetyMargin == 60    \* cached.expires_at > now + 60
ReconnectDelay == 5   \* tokio::time::Duration::from_secs(5)
TicketTtl == 30       \* Duration::from_secs(30) of WsTicket::is_expired

NilUuid == "00000000-0000-0000-0000-000000000000"
U1 == "u1"
Users == {NilUuid, U1}
Tokens == {"t1", "t2"}

NoError == "none"

VARIABLES
    rows,        \* activity.notifications, in created_at order
    now,         \* the database clock
    devices,     \* activity.user_devices: set of [fcm_token, user_id]
    bus_client,  \* NotificationWorker.bus_client is Some
    fcm_client,  \* NotificationWorker.fcm_client is Some
    wake,        \* number of () values queued in the wake channel
    lstate,      \* listener: "disconnected" | "connected" | "subscribed" |
                 \* "signalling" | "backoff"
    inbox,       \* NOTIFY events received by the session, not yet recv()ed
    notifies,    \* NOTIFY events published without an insert
    announced,   \* rows whose NOTIFY listener.recv() has returned
    received,    \* number of NOTIFY events listener.recv() has returned
    notify_unseen, \* a NOTIFY was received and no fetch has started since
    pc,          \* worker position
    batch,       \* rows of the fetched batch not yet processed
    devs,        \* send_via_push: devices still to send to
    success_count,
    last_error,
    bus_success, \* process_broadcast locals
    push_success,
    outcome,     \* result of the sinks, input of the outcome call
    calls,       \* log of the calls made by the current process_one
    attempts,    \* process_one invocations per row
    bus_hits,    \* rows for which publish_to_user reported delivered_to > 0
    woken,       \* number of waits ended by a wake signal
    drain_aborted, \* the last fetch of the last drain failed
    due,         \* rows pending at the last timeout and not recorded since
    faults,      \* persistence errors injected so far
    token_cache, \* FcmClient.token_cache: the cached bearer, or NoToken
    clock,       \* SystemTime::now(), in seconds
    tpc,         \* per get_access_token call in flight: where it is
    tlocal,      \* per get_access_token call: what it observed and holds
    issued,      \* bearers the token endpoint has issued
    stopped_at,  \* where the worker task was when the runtime dropped it
    connections, \* ConnectionManager.connections: user_id -> Vec<WsSender>
    hpc,         \* per handle_connection task: "idle" | "open" | "returned"
    huser,       \* per handle_connection task: its user_id
    tickets,     \* TicketStore.tickets: ticket_id -> WsTicket
    minted,      \* ticket ids create_ticket has generated
    issued_to,   \* per ticket id: the user_id it was created for
    validated,   \* per ticket id: the user_ids validate_and_consume returned
    upgrades,    \* per ticket id: upgrades the ticket authenticated
    refused,     \* issued ticket ids for which a validation returned None
    last_upgrade, \* the last upgrade request: its parameters and its answer
    log_fcm_tokens, \* DebugConfig.log_fcm_tokens
    device_token, \* the device token the log is inspected for
    log,         \* log lines that carry a token field
    sent,        \* per FcmClient::send call: the reply, the result, the requests
    signals,     \* tx.try_send calls the listener has made
    dropped,     \* those that returned Full or Closed
    last_exit,   \* which call ended the last listen_loop, "none" in a session
    waited,      \* seconds listen slept after the last listen_loop
    slept,       \* seconds the worker's current select has been pending
    recv_disabled, \* the select's receive branch was disabled by a None
    rx_dropped,  \* handle_connection tasks whose channel Receiver is dropped
    last_send    \* the last send_to_user call: its user and what it counted

vars == <<rows, now, devices, bus_client, fcm_client, wake, lstate, inbox,
          notifies, announced, received, notify_unseen, pc, batch, devs, success_count,
          last_error, bus_success, push_success, outcome, calls, attempts,
          bus_hits, woken, drain_aborted, due, faults, token_cache, clock,
          tpc, tlocal, issued, stopped_at, connections, hpc, huser, tickets,
          minted, issued_to, validated, upgrades, refused, last_upgrade,
          log_fcm_tokens,
          device_token, log, sent, signals, dropped, last_exit, waited,
          slept, recv_disabled, rx_dropped, last_send>>

envVars == <<rows, now, devices, bus_client, fcm_client>>
listenerVars == <<wake, lstate, inbox, notifies, announced, received,
                  notify_unseen>>
pushVars == <<devs, success_count, last_error>>
bcastVars == <<bus_success, push_success>>
histVars == <<attempts, bus_hits, woken, drain_aborted, due>>
bearerVars == <<token_cache, clock, tpc, tlocal, issued>>
wsVars == <<connections, hpc, huser, tickets, minted, issued_to, validated,
            upgrades, refused, last_upgrade>>
logVars == <<log_fcm_tokens, device_token, log>>
loopVars == <<signals, dropped, last_exit, waited>>
selectVars == <<slept, recv_disabled>>
mgrVars == <<rx_dropped, last_send>>
sideVars == <<wsVars, logVars, sent, loopVars, selectVars, mgrVars>>
engineVars == <<envVars, listenerVars, pc, batch, pushVars, bcastVars, outcome,
                calls, histVars, faults>>

\* The log of one process_one invocation: the calls it has made so far.
\*   registered  tokens registered for the recipient when it was entered
\*   lookup_err  get_user_devices failed with a persistence error
\*   found       tokens returned by get_user_devices
\*   sends       tokens fcm.send was called with, in order
\*   oks         tokens whose send returned Ok
\*   marked      tokens whose reply contained UNREGISTERED / INVALID_ARGUMENT
\*   rejected    those of marked whose reply was not a 2xx
\*   removes     tokens remove_device was called with, in order
\*   errors      the error texts of the sends that failed otherwise, in order
\*   remove_err  those whose remove_device call failed
\*   sp_err      the outcome call failed with a persistence error
NoCalls == [id |-> 0, publish_to_user |-> 0, bus_reply |-> "none",
            publish_topic |-> 0, send_to_topic |-> 0,
            get_user_devices |-> 0, lookup_err |-> FALSE,
            registered |-> {}, found |-> {},
            sends |-> <<>>, oks |-> {}, marked |-> {}, rejected |-> {},
            errors |-> <<>>, removes |-> <<>>, remove_err |-> {},
            mark_success |-> 0, mark_failure |-> 0, sp_err |-> FALSE,
            reason |-> NoError, result |-> "none"]

NoOutcome == [sp |-> "none", result |-> "none", reason |-> NoError]

Min(a, b) == IF a < b THEN a ELSE b

(***************************************************************************)
(* Store: the pending queue.                                               *)
(***************************************************************************)
\* WHERE is_processed = false
Pending(rs) == {i \in DOMAIN rs : ~rs[i].is_processed}

\* mutant: ORDER BY created_at DESC
fetch_unprocessed_Desc(rs, limit) ==
    LET S == Pending(rs)
        n == Min(limit, Cardinality(S))
        nth[k \in 1..n] ==
            IF k = 1 THEN CHOOSE i \in S : \A j \in S : j <= i
            ELSE CHOOSE i \in S : i < nth[k - 1]
                                  /\ \A j \in S : j < nth[k - 1] => j <= i
    IN  nth

\* mutant: the WHERE clause is missing
fetch_unprocessed_NoWhere(rs, limit) == [k \in 1..Min(limit, Len(rs)) |-> k]

\* ORDER BY created_at ASC LIMIT $1 (rows are kept in created_at order)
fetch_unprocessed(rs, limit) ==
    LET S == Pending(rs)
    IN  [k \in 1..Min(limit, Cardinality(S)) |->
            CHOOSE i \in S : Cardinality({j \in S : j < i}) = k - 1]

\* activity.sp_notification_success(id): true iff a row was updated
sp_notification_success(rs, id) ==
    IF id \in DOMAIN rs /\ ~rs[id].is_processed
    THEN [rows |-> [rs EXCEPT ![id].is_processed = TRUE], ret |-> TRUE]
    ELSE [rows |-> rs, ret |-> FALSE]

\* activity.sp_notification_failure(id, error_text, max_retries):
\* true iff the retry ceiling was reached
sp_notification_failure(rs, id, error_text, ceiling) ==
    IF id \in DOMAIN rs /\ ~rs[id].is_processed
    THEN LET n == rs[id].retry_count + 1
         IN  [rows |-> [rs EXCEPT ![id].retry_count = n,
                                  ![id].last_error = error_text,
                                  ![id].is_processed = (n >= ceiling)],
              ret |-> (n >= ceiling)]
    ELSE [rows |-> rs, ret |-> FALSE]

\* SELECT fcm_token, device_type FROM activity.user_devices WHERE user_id = $1
get_user_devices(ds, user_id) == {d.fcm_token : d \in {e \in ds : e.user_id = user_id}}

\* DELETE FROM activity.user_devices WHERE fcm_token = $1
remove_device(ds, fcm_token) == {d \in ds : d.fcm_token # fcm_token}

\* The orders in which the database may return a set of devices
Orders(S) == {q \in [1..Cardinality(S) -> S] : \A t \in S : \E k \in DOMAIN q : q[k] = t}

(***************************************************************************)
(* Push sink: FcmClient::send.  A reply of FCM is a bearer failure (no     *)
(* request is sent), a transport failure, or an HTTP response with a       *)
(* status and a body; of the body only whether it contains UNREGISTERED or *)
(* INVALID_ARGUMENT matters.                                               *)
(***************************************************************************)
FcmReplies ==
    {[kind |-> "bearer", success |-> FALSE, invalid_marker |-> FALSE],
     [kind |-> "transport", success |-> FALSE, invalid_marker |-> FALSE]}
    \cup {[kind |-> "http", success |-> s, invalid_marker |-> m] :
             s \in BOOLEAN, m \in BOOLEAN}

\* mutant: the body of a non-2xx response is not inspected
FcmSend_NoBodyCheck(reply) ==
    IF reply.kind = "bearer" THEN "TokenError"
    ELSE IF reply.kind = "transport" THEN "SendError"
    ELSE IF reply.success THEN "Ok"
    ELSE "SendError"

FcmSend(reply) ==
    IF reply.kind = "bearer" THEN "TokenError"
    ELSE IF reply.kind = "transport" THEN "SendError"
    ELSE IF reply.success THEN "Ok"
    ELSE IF reply.invalid_marker THEN "InvalidToken"
    ELSE "SendError"

(***************************************************************************)
(* Bus sink: the reply to publish_to_user / publish.                       *)
(***************************************************************************)
BusReplies ==
    {[err |-> TRUE, delivered_to |-> 0]}
    \cup {[err |-> FALSE, delivered_to |-> n] : n \in 0..1}

\* mutant: a publish error counts as a delivery
BusDelivered_AlsoOnError(reply) == reply.err \/ reply.delivered_to > 0

\* mutant: the guard asks for more than one receiver
BusDelivered_MoreThanOne(reply) == ~reply.err /\ reply.delivered_to > 1

\* Ok(delivered_to) if delivered_to > 0
BusDelivered(reply) == ~reply.err /\ reply.delivered_to > 0

\* mutant: the broadcast check is missing
is_nil_Never(user_id) == FALSE

\* user_id.is_nil()
is_nil(user_id) == user_id = NilUuid

\* mutant: the device loop succeeds whatever it counted
PushResult_ZeroCounts(count, err) ==
    IF count >= 0
    THEN [sp |-> "success", result |-> "Push", reason |-> NoError]
    ELSE [sp |-> "failure", result |-> "Failed",
          reason |-> IF err = NoError THEN "All push attempts failed" ELSE err]

\* mutant: success only if every one of two sends succeeded
PushResult_MoreThanOne(count, err) ==
    IF count > 1
    THEN [sp |-> "success", result |-> "Push", reason |-> NoError]
    ELSE [sp |-> "failure", result |-> "Failed",
          reason |-> IF err = NoError THEN "All push attempts failed" ELSE err]

\* the value send_via_push returns after the device loop
PushResult(count, err) ==
    IF count > 0
    THEN [sp |-> "success", result |-> "Push", reason |-> NoError]
    ELSE [sp |-> "failure", result |-> "Failed",
          reason |-> IF err = NoError THEN "All push attempts failed" ELSE err]

\* mutant: every early return of send_via_push carries the same text
PushErr_OneText(text) ==
    [sp |-> "failure", result |-> "Failed", reason |-> "All push attempts failed"]

\* Err(text) returned by send_via_push before the device loop
PushErr(text) == [sp |-> "failure", result |-> "Failed", reason |-> text]

\* mutant: a broadcast that reached no sink is recorded as a failure
BroadcastResult_FailureRecorded(bus_ok, push_ok) ==
    [sp |-> IF bus_ok \/ push_ok THEN "success" ELSE "failure",
     result |-> IF bus_ok \/ push_ok THEN "Bus" ELSE "Failed",
     reason |-> NoError]

\* the value process_broadcast returns; mark_success is called in any case
BroadcastResult(bus_ok, push_ok) ==
    [sp |-> "success",
     result |-> IF bus_ok \/ push_ok THEN "Bus" ELSE "Failed",
     reason |-> NoError]

\* a persistence error may be injected
CanFault == faults < MaxFaults

(***************************************************************************)
(* Worker: process_all_pending.                                            *)
(***************************************************************************)
\* the loop head: one fetch_unprocessed call
FetchLimit(limit) ==
    /\ pc = "fetch"
    /\ \/ /\ CanFault                       \* Err(e) => break
          /\ faults' = faults + 1
          /\ batch' = <<>>
          /\ pc' = "wait"
          /\ drain_aborted' = TRUE
       \/ /\ batch' = fetch_unprocessed(rows, limit)
          /\ pc' = IF batch' = <<>> THEN "wait" ELSE "one"
          /\ drain_aborted' = FALSE
          /\ UNCHANGED faults
    /\ calls' = NoCalls
    /\ notify_unseen' = FALSE
    /\ UNCHANGED <<sideVars, bearerVars, stopped_at, envVars, wake, lstate, inbox, notifies, announced, received,
                   pushVars, bcastVars, outcome, attempts, bus_hits, woken, due>>

\* the fetch of a service configured with WORKER_BATCH_SIZE = 1
FetchBatch == FetchLimit(worker_batch_size)

\* the fetch of a service configured with a larger batch
FetchWide == FetchLimit(worker_batch_size + 1)

\* Config.worker_poll_interval_secs
worker_poll_interval_secs == 2

\* where process_one goes after the broadcast check
AfterStart(user_id) ==
    IF is_nil(user_id)
    THEN (IF bus_client THEN "bcast_bus"
          ELSE IF fcm_client THEN "bcast_push" ELSE "mark")
    ELSE (IF bus_client THEN "bus" ELSE "push")

\* the history counter attempts counts no further than this
AttemptsCap == max_retries + MaxFaults + 1

\* process_one is entered for the next row of the batch
process_one ==
    /\ pc = "one"
    /\ LET id == Head(batch)
       IN  /\ calls' = [NoCalls EXCEPT
                  !.id = id,
                  !.registered = get_user_devices(devices, rows[id].user_id)]
           /\ attempts' = [attempts EXCEPT ![id] = Min(@ + 1, AttemptsCap)]
           /\ pc' = AfterStart(rows[id].user_id)
           /\ outcome' = IF pc' = "mark" THEN BroadcastResult(FALSE, FALSE)
                         ELSE NoOutcome
    /\ UNCHANGED <<sideVars, bearerVars, stopped_at, envVars, listenerVars, batch, pushVars, bcastVars, bus_hits,
                   woken, drain_aborted, due, faults>>

\* send_via_bus and the match on its result
send_via_bus ==
    /\ pc = "bus"
    /\ \E reply \in BusReplies :
          /\ calls' = [calls EXCEPT !.publish_to_user = @ + 1,
                                    !.bus_reply = IF reply.err THEN "error"
                                                  ELSE IF reply.delivered_to > 0
                                                       THEN "delivered" ELSE "zero"]
          /\ bus_hits' = IF ~reply.err /\ reply.delivered_to > 0
                          THEN bus_hits \cup {calls.id} ELSE bus_hits
          /\ IF BusDelivered(reply)
             THEN /\ outcome' = [sp |-> "success", result |-> "Bus", reason |-> NoError]
                  /\ pc' = "mark"
             ELSE /\ outcome' = outcome
                  /\ pc' = "push"
    /\ UNCHANGED <<sideVars, bearerVars, stopped_at, envVars, listenerVars, batch, pushVars, bcastVars, attempts,
                   woken, drain_aborted, due, faults>>

\* send_via_push up to the device loop
send_via_push ==
    /\ pc = "push"
    /\ LET user_id == rows[calls.id].user_id
       IN  IF ~fcm_client
           THEN /\ outcome' = PushErr("FCM not configured")
                /\ pc' = "mark"
                /\ UNCHANGED <<calls, devs, faults>>
           ELSE \/ /\ CanFault
                   /\ faults' = faults + 1
                   /\ calls' = [calls EXCEPT !.get_user_devices = @ + 1,
                                                 !.lookup_err = TRUE]
                   /\ outcome' = PushErr("Failed to get devices")
                   /\ pc' = "mark"
                   /\ UNCHANGED devs
                \/ LET found == get_user_devices(devices, user_id)
                   IN  /\ calls' = [calls EXCEPT !.get_user_devices = @ + 1,
                                                 !.found = found]
                       /\ UNCHANGED faults
                       /\ IF found = {}
                          THEN /\ outcome' = PushErr("No registered devices")
                               /\ pc' = "mark"
                               /\ UNCHANGED devs
                          ELSE /\ devs' \in Orders(found)
                               /\ outcome' = outcome
                               /\ pc' = "send"
    /\ UNCHANGED <<sideVars, bearerVars, stopped_at, envVars, listenerVars, batch, success_count, last_error,
                   bcastVars, histVars>>

\* one iteration of the device loop of send_via_push: fcm.send and the match
\* on its result; after the last device the result of send_via_push
send_to_device ==
    /\ pc = "send"
    /\ LET token == Head(devs)
       IN  \E reply \in FcmReplies, remove_ok \in BOOLEAN :
              LET r == FcmSend(reply)
                  removing == r = "InvalidToken"
                  rejected == reply.kind = "http" /\ ~reply.success
                              /\ reply.invalid_marker
              IN  /\ success_count' = IF r = "Ok" THEN success_count + 1
                                      ELSE success_count
                  /\ last_error' = IF r \in {"SendError", "TokenError"} THEN r
                                   ELSE last_error
                  \* remove_device; its failure is logged and ignored
                  /\ IF removing THEN remove_ok \/ CanFault ELSE remove_ok
                  /\ devices' = IF removing /\ remove_ok
                                THEN remove_device(devices, token) ELSE devices
                  /\ faults' = IF removing /\ ~remove_ok THEN faults + 1 ELSE faults
                  /\ calls' = [calls EXCEPT
                        !.sends = Append(@, token),
                        !.oks = IF r = "Ok" THEN @ \cup {token} ELSE @,
                        !.marked = IF reply.invalid_marker THEN @ \cup {token} ELSE @,
                        !.rejected = IF rejected THEN @ \cup {token} ELSE @,
                        !.errors = IF r \in {"SendError", "TokenError"}
                                   THEN Append(@, r) ELSE @,
                        !.removes = IF removing THEN Append(@, token) ELSE @,
                        !.remove_err = IF removing /\ ~remove_ok
                                       THEN @ \cup {token} ELSE @]
                  /\ devs' = Tail(devs)
                  /\ IF devs' = <<>>
                     THEN /\ outcome' = PushResult(success_count', last_error')
                          /\ pc' = "mark"
                     ELSE /\ outcome' = outcome
                          /\ pc' = "send"
    /\ UNCHANGED <<sideVars, bearerVars, stopped_at, rows, now, bus_client, fcm_client, listenerVars, batch,
                   bcastVars, histVars>>

\* mutant: a bus publish that succeeded makes the push send unnecessary
AfterBroadcastBus_PushOnlyOnError(bus_ok) ==
    IF fcm_client /\ ~bus_ok THEN "bcast_push" ELSE "mark"

\* process_broadcast after the bus block: if let Some(fcm) = &self.fcm_client
AfterBroadcastBus(bus_ok) == IF fcm_client THEN "bcast_push" ELSE "mark"

\* process_broadcast: bus.publish to topic global_notifications
broadcast_bus ==
    /\ pc = "bcast_bus"
    /\ \E reply \in BusReplies :
          /\ bus_success' = ~reply.err
          /\ calls' = [calls EXCEPT !.publish_topic = @ + 1]
          /\ pc' = AfterBroadcastBus(bus_success')
          /\ outcome' = IF pc' = "bcast_push" THEN outcome
                        ELSE BroadcastResult(bus_success', FALSE)
    /\ UNCHANGED <<sideVars, bearerVars, stopped_at, envVars, listenerVars, batch, pushVars, push_success,
                   histVars, faults>>

\* process_broadcast: fcm.send_to_topic("all")
broadcast_push ==
    /\ pc = "bcast_push"
    /\ \E reply \in FcmReplies :
          /\ push_success' = (FcmSend(reply) = "Ok")
          /\ calls' = [calls EXCEPT !.send_to_topic = @ + 1]
          /\ pc' = "mark"
          /\ outcome' = BroadcastResult(bus_success, push_success')
    /\ UNCHANGED <<sideVars, bearerVars, stopped_at, envVars, listenerVars, batch, pushVars, bus_success,
                   histVars, faults>>

\* mutant: process_all_pending fetches one batch per cycle
AfterRow_NoRefetch(rest) == IF rest = <<>> THEN "wait" ELSE "one"

\* after a row: the next row of the batch, or the next fetch of the drain
AfterRow(rest) == IF rest = <<>> THEN "fetch" ELSE "one"

\* mutant: no return after the bus delivery was marked; process_one goes on
\* to the push fallback
mark_outcome_NoReturn ==
    /\ pc = "mark"
    /\ \E sp_ok \in BOOLEAN :
          LET id == calls.id
              done == IF outcome.sp = "success"
                      THEN sp_notification_success(rows, id)
                      ELSE sp_notification_failure(rows, id, outcome.reason,
                                                   max_retries)
          IN  /\ sp_ok \/ CanFault
              /\ rows' = IF sp_ok THEN done.rows ELSE rows
              /\ faults' = IF sp_ok THEN faults ELSE faults + 1
              /\ calls' = [calls EXCEPT
                    !.mark_success = IF outcome.sp = "success" THEN @ + 1 ELSE @,
                    !.mark_failure = IF outcome.sp = "failure" THEN @ + 1 ELSE @,
                    !.sp_err = ~sp_ok,
                    !.reason = outcome.reason,
                    !.result = outcome.result]
    /\ batch' = IF outcome.result = "Bus" /\ calls.publish_to_user > 0
                THEN batch ELSE Tail(batch)
    /\ pc' = IF outcome.result = "Bus" /\ calls.publish_to_user > 0 THEN "push"
             ELSE AfterRow(batch')
    \* process_one returns: its locals are gone
    /\ devs' = <<>>
    /\ success_count' = 0
    /\ last_error' = NoError
    /\ bus_success' = FALSE
    /\ push_success' = FALSE
    /\ outcome' = NoOutcome
    /\ due' = {i \in due : rows'[i] = rows[i]}
    /\ UNCHANGED <<sideVars, bearerVars, stopped_at, now, devices, bus_client, fcm_client, listenerVars, attempts,
                   bus_hits, woken, drain_aborted>>

\* mutant: with no sink configured process_one returns Failed without an
\* outcome call
mark_outcome_SkipsNoSink ==
    /\ pc = "mark"
    /\ \E sp_ok \in BOOLEAN :
          LET id == calls.id
              skip == ~bus_client /\ ~fcm_client
              done == IF outcome.sp = "success"
                      THEN sp_notification_success(rows, id)
                      ELSE sp_notification_failure(rows, id, outcome.reason,
                                                   max_retries)
          IN  /\ sp_ok \/ CanFault
              /\ rows' = IF sp_ok /\ ~skip THEN done.rows ELSE rows
              /\ faults' = IF sp_ok THEN faults ELSE faults + 1
              /\ calls' = [calls EXCEPT
                    !.mark_success = IF outcome.sp = "success" /\ ~skip
                                     THEN @ + 1 ELSE @,
                    !.mark_failure = IF outcome.sp = "failure" /\ ~skip
                                     THEN @ + 1 ELSE @,
                    !.sp_err = ~sp_ok,
                    !.reason = outcome.reason,
                    !.result = outcome.result]
    /\ batch' = Tail(batch)
    /\ pc' = AfterRow(batch')
    /\ devs' = <<>>
    /\ success_count' = 0
    /\ last_error' = NoError
    /\ bus_success' = FALSE
    /\ push_success' = FALSE
    /\ outcome' = NoOutcome
    /\ due' = {i \in due : rows'[i] = rows[i]}
    /\ UNCHANGED <<sideVars, bearerVars, stopped_at, now, devices, bus_client, fcm_client, listenerVars, attempts,
                   bus_hits, woken, drain_aborted>>

\* the outcome call of process_one / process_broadcast (mark_success or
\* mark_failure), the return, and the next iteration of the batch loop
mark_outcome ==
    /\ pc = "mark"
    /\ \E sp_ok \in BOOLEAN :
          LET id == calls.id
              done == IF outcome.sp = "success"
                      THEN sp_notification_success(rows, id)
                      ELSE sp_notification_failure(rows, id, outcome.reason,
                                                   max_retries)
          IN  /\ sp_ok \/ CanFault
              /\ rows' = IF sp_ok THEN done.rows ELSE rows
              /\ faults' = IF sp_ok THEN faults ELSE faults + 1
              /\ calls' = [calls EXCEPT
                    !.mark_success = IF outcome.sp = "success" THEN @ + 1 ELSE @,
                    !.mark_failure = IF outcome.sp = "failure" THEN @ + 1 ELSE @,
                    !.sp_err = ~sp_ok,
                    !.reason = outcome.reason,
                    !.result = outcome.result]
    /\ batch' = Tail(batch)
    /\ pc' = AfterRow(batch')
    \* process_one returns: its locals are gone
    /\ devs' = <<>>
    /\ success_count' = 0
    /\ last_error' = NoError
    /\ bus_success' = FALSE
    /\ push_success' = FALSE
    /\ outcome' = NoOutcome
    /\ due' = {i \in due : rows'[i] = rows[i]}
    /\ UNCHANGED <<sideVars, bearerVars, stopped_at, now, devices, bus_client, fcm_client, listenerVars, attempts,
                   bus_hits, woken, drain_aborted>>

\* the outcome call while the database rejects writes: mark_success /
\* mark_failure log the Err and return, no row is updated, and the batch
\* loop goes on
mark_outcome_outage ==
    /\ pc = "mark"
    /\ calls' = [calls EXCEPT
          !.mark_success = IF outcome.sp = "success" THEN @ + 1 ELSE @,
          !.mark_failure = IF outcome.sp = "failure" THEN @ + 1 ELSE @,
          !.sp_err = TRUE,
          !.reason = outcome.reason,
          !.result = outcome.result]
    /\ batch' = Tail(batch)
    /\ pc' = AfterRow(batch')
    \* process_one returns: its locals are gone
    /\ devs' = <<>>
    /\ success_count' = 0
    /\ last_error' = NoError
    /\ bus_success' = FALSE
    /\ push_success' = FALSE
    /\ outcome' = NoOutcome
    /\ UNCHANGED <<sideVars, bearerVars, stopped_at, envVars, listenerVars, attempts,
                   bus_hits, woken, drain_aborted, due, faults>>

(***************************************************************************)
(* Worker: run.  After process_all_pending the worker waits for a wake     *)
(* signal or for the poll interval to elapse.                              *)
(***************************************************************************)
wake_recv ==
    /\ pc = "wait"
    /\ wake > 0
    /\ wake' = wake - 1
    /\ woken' = woken + 1
    /\ pc' = "fetch"
    /\ UNCHANGED <<sideVars, bearerVars, stopped_at, envVars, lstate, inbox, notifies, announced, received, notify_unseen, batch,
                   pushVars, bcastVars, outcome, calls, attempts, bus_hits,
                   drain_aborted, due, faults>>

\* mutant: after the timeout the worker goes back to sleep without a drain
wake_timeout_Sleeps ==
    /\ pc = "wait"
    /\ UNCHANGED vars

wake_timeout ==
    /\ pc = "wait"
    /\ pc' = "fetch"
    /\ due' = Pending(rows)
    /\ UNCHANGED <<sideVars, bearerVars, stopped_at, envVars, listenerVars, batch, pushVars, bcastVars, outcome,
                   calls, attempts, bus_hits, woken, drain_aborted, faults>>

(***************************************************************************)
(* Worker: the select of run, branch by branch and second by second.       *)
(***************************************************************************)
\* the listener task has ended and with it wake_tx, the only Sender
SenderDropped == lstate = "gone"

\* wake_rx.recv() when polled: Some(()) while a signal is queued, None once
\* the channel is empty and every Sender is dropped, Pending otherwise
recv(queued, senders_gone) ==
    IF queued > 0 THEN "Some"
    ELSE IF senders_gone THEN "None" ELSE "Pending"

\* mutant: the branch pattern matches whatever recv() returns
select_pattern_Any(value) == value \in {"Some", "None"}

\* the branch pattern `Some(_) = wake_rx.recv()`
select_pattern(value) == value = "Some"

\* the listener task ends (panic, abort): its Sender is dropped, the signals
\* already queued stay in the channel
listener_gone ==
    /\ lstate # "gone"
    /\ lstate' = "gone"
    /\ UNCHANGED <<sideVars, bearerVars, stopped_at, envVars, wake, inbox, notifies, announced, received, notify_unseen, pc,
                   batch, pushVars, bcastVars, outcome, calls, histVars, faults>>

\* the receive branch completes: with a value the pattern matches the select
\* returns and run starts its next cycle; otherwise the branch is disabled
\* for the rest of this select
select_recv ==
    /\ pc = "wait"
    /\ ~recv_disabled
    /\ recv(wake, SenderDropped) # "Pending"
    /\ LET value == recv(wake, SenderDropped)
       IN  /\ wake' = IF value = "Some" THEN wake - 1 ELSE wake
           /\ IF select_pattern(value)
              THEN /\ pc' = "fetch"
                   /\ woken' = woken + 1
                   /\ slept' = 0
                   /\ recv_disabled' = FALSE
              ELSE /\ recv_disabled' = TRUE
                   /\ UNCHANGED <<pc, woken, slept>>
    /\ UNCHANGED <<mgrVars, wsVars, logVars, sent, loopVars, bearerVars, stopped_at, envVars, lstate, inbox, notifies, announced, received, notify_unseen, batch,
                   pushVars, bcastVars, outcome, calls, attempts, bus_hits,
                   drain_aborted, due, faults>>

\* a second passes while no branch of the select is ready
select_pending ==
    /\ pc = "wait"
    /\ recv_disabled \/ recv(wake, SenderDropped) = "Pending"
    /\ slept < worker_poll_interval_secs
    /\ slept' = slept + 1
    /\ UNCHANGED <<mgrVars, wsVars, logVars, sent, loopVars, recv_disabled, bearerVars, stopped_at, engineVars>>

\* the sleep branch completes: the select returns and run starts its next
\* cycle
select_timeout ==
    /\ pc = "wait"
    /\ slept = worker_poll_interval_secs
    /\ pc' = "fetch"
    /\ due' = Pending(rows)
    /\ slept' = 0
    /\ recv_disabled' = FALSE
    /\ UNCHANGED <<mgrVars, wsVars, logVars, sent, loopVars, bearerVars, stopped_at, envVars, listenerVars, batch, pushVars, bcastVars, outcome,
                   calls, attempts, bus_hits, woken, drain_aborted, faults>>

(***************************************************************************)
(* Listener: listen / listen_loop.                                         *)
(***************************************************************************)
\* mutant: the listener logs the NOTIFY and sends nothing
try_send_Never(queued) == queued

\* mutant: a channel that holds one signal
try_send_CapacityOne(queued) == IF queued < 1 THEN queued + 1 ELSE queued

\* tx.try_send(()): the number of queued signals afterwards
try_send(queued) == IF queued < WakeCapacity THEN queued + 1 ELSE queued

\* PgListener::connect and listener.listen succeed
listener_connect ==
    /\ lstate = "disconnected"
    /\ lstate' = "subscribed"
    /\ UNCHANGED <<sideVars, bearerVars, stopped_at, envVars, wake, inbox, notifies, announced, received, notify_unseen, pc,
                   batch, pushVars, bcastVars, outcome, calls, histVars, faults>>

\* listener.recv() returns a notification: one try_send
listener_recv ==
    /\ lstate = "subscribed"
    /\ inbox # <<>>
    /\ wake' = try_send(wake)
    /\ announced' = IF Head(inbox) = 0 THEN announced
                    ELSE announced \cup {Head(inbox)}
    /\ received' = received + 1
    /\ notify_unseen' = TRUE
    /\ inbox' = Tail(inbox)
    /\ UNCHANGED <<sideVars, bearerVars, stopped_at, envVars, lstate, notifies, pc, batch, pushVars, bcastVars,
                   outcome, calls, histVars, faults>>

\* listener.recv() returns an error: the session ends, listen reconnects
listener_error ==
    /\ lstate = "subscribed"
    /\ lstate' = "disconnected"
    /\ inbox' = <<>>
    /\ UNCHANGED <<sideVars, bearerVars, stopped_at, envVars, wake, notifies, announced, received, notify_unseen, pc, batch, pushVars,
                   bcastVars, outcome, calls, histVars, faults>>

(***************************************************************************)
(* Listener, call by call: listen and listen_loop.                         *)
(***************************************************************************)
\* listen_loop is between listener.listen succeeding and recv failing
InSession == lstate \in {"subscribed", "signalling"}

\* the worker task is gone and has dropped wake_rx
Closed == pc = "stopped"

\* what tx.try_send(()) returns
TrySendResult(queued, closed) ==
    IF closed THEN "Closed"
    ELSE IF try_send(queued) = queued THEN "Full" ELSE "Ok"

\* mutant: a closed channel ends the session
after_try_send_ClosedEnds(result) ==
    IF result = "Closed" THEN "backoff" ELSE "subscribed"

\* listen_loop: every arm of the match on try_send ends the iteration
after_try_send(result) == "subscribed"

\* mutant: listen hands the error of listen_loop to its caller
after_listen_loop_Returns(result) ==
    IF result = "Err" THEN "returned" ELSE "disconnected"

\* listen: Ok restarts the loop at once, Err sleeps first
after_listen_loop(result) ==
    IF result = "Err" THEN "backoff" ELSE "disconnected"

\* PgListener::connect(&self.database_url).await?
listen_loop_connect ==
    /\ lstate = "disconnected"
    /\ \E ok \in BOOLEAN :
          /\ lstate' = IF ok THEN "connected" ELSE after_listen_loop("Err")
          /\ last_exit' = IF ok THEN last_exit ELSE "connect"
          /\ waited' = IF ok THEN waited ELSE 0
    /\ UNCHANGED <<selectVars, mgrVars, wsVars, logVars, sent, signals, dropped, bearerVars,
                   stopped_at, envVars, wake, inbox, notifies, announced,
                   received, notify_unseen, pc, batch, pushVars, bcastVars,
                   outcome, calls, histVars, faults>>

\* listener.listen(NOTIFY_CHANNEL).await?
listen_loop_listen ==
    /\ lstate = "connected"
    /\ \E ok \in BOOLEAN :
          /\ lstate' = IF ok THEN "subscribed" ELSE after_listen_loop("Err")
          /\ last_exit' = IF ok THEN "none" ELSE "subscribe"
          /\ waited' = 0
    /\ UNCHANGED <<selectVars, mgrVars, wsVars, logVars, sent, signals, dropped, bearerVars,
                   stopped_at, envVars, wake, inbox, notifies, announced,
                   received, notify_unseen, pc, batch, pushVars, bcastVars,
                   outcome, calls, histVars, faults>>

\* listener.recv().await: a notification, or an error that ends listen_loop
listen_loop_recv ==
    /\ lstate = "subscribed"
    /\ \/ /\ inbox # <<>>
          /\ announced' = IF Head(inbox) = 0 THEN announced
                          ELSE announced \cup {Head(inbox)}
          /\ received' = received + 1
          /\ inbox' = Tail(inbox)
          /\ lstate' = "signalling"
          /\ UNCHANGED <<last_exit, waited>>
       \/ /\ inbox' = <<>>
          /\ lstate' = after_listen_loop("Err")
          /\ last_exit' = "recv"
          /\ waited' = 0
          /\ UNCHANGED <<announced, received>>
    /\ UNCHANGED <<selectVars, mgrVars, wsVars, logVars, sent, signals, dropped, bearerVars,
                   stopped_at, envVars, wake, notifies, notify_unseen, pc,
                   batch, pushVars, bcastVars, outcome, calls, histVars, faults>>

\* match tx.try_send(()) and its three arms
listen_loop_try_send ==
    /\ lstate = "signalling"
    /\ LET result == TrySendResult(wake, Closed)
       IN  /\ wake' = IF Closed THEN wake ELSE try_send(wake)
           /\ signals' = signals + 1
           /\ dropped' = IF result = "Ok" THEN dropped ELSE dropped + 1
           /\ lstate' = after_try_send(result)
           /\ last_exit' = IF lstate' = "subscribed" THEN last_exit
                           ELSE "try_send"
    /\ notify_unseen' = TRUE
    /\ UNCHANGED <<selectVars, mgrVars, wsVars, logVars, sent, waited, bearerVars, stopped_at,
                   envVars, inbox, notifies, announced, received, pc, batch,
                   pushVars, bcastVars, outcome, calls, histVars, faults>>

\* tokio::time::sleep(Duration::from_secs(5)), then the next iteration of listen
listen_sleep ==
    /\ lstate = "backoff"
    /\ waited' = ReconnectDelay
    /\ lstate' = "disconnected"
    /\ UNCHANGED <<selectVars, mgrVars, wsVars, logVars, sent, signals, dropped, last_exit,
                   bearerVars, stopped_at, envVars, wake, inbox, notifies,
                   announced, received, notify_unseen, pc, batch, pushVars,
                   bcastVars, outcome, calls, histVars, faults>>

(***************************************************************************)
(* Shutdown: main returns and the runtime drops the spawned tasks.         *)
(***************************************************************************)
\* shutdown_signal resolves, the server task ends, main's select returns and
\* the runtime is dropped: the worker task is dropped at the await it is
\* suspended in
shutdown ==
    /\ pc # "stopped"
    /\ stopped_at' = pc
    /\ pc' = "stopped"
    /\ UNCHANGED <<sideVars, bearerVars, envVars, listenerVars, batch, pushVars,
                   bcastVars, outcome, calls, histVars, faults>>

(***************************************************************************)
(* Push sink: the bearer cache (FcmClient::get_access_token).              *)
(***************************************************************************)
Callers == 1..MaxCallers

\* TokenResponse.expires_in values the token endpoint answers with
ExpiresIn == {SafetyMargin, SafetyMargin + 1, 2 * SafetyMargin}

\* Option<CachedToken>: None
NoToken == [access_token |-> 0, obtained_at |-> 0, expires_at |-> 0]

\* a call that has observed nothing yet
NoLocal == [seen |-> 0, since |-> 0, found |-> NoToken, token |-> NoToken,
            src |-> "none"]

\* mutant: the cached bearer is used until it expires
Fresh_NoMargin(cached, t) == cached # NoToken /\ cached.expires_at > t

\* if let Some(cached) ... if cached.expires_at > now + 60
Fresh(cached, t) == cached # NoToken /\ cached.expires_at > t + SafetyMargin

\* the read guard, the check and, for a fresh bearer, the return
get_access_token(c) ==
    /\ tpc[c] = "idle"
    /\ IF Fresh(token_cache, clock)
       THEN /\ tpc' = [tpc EXCEPT ![c] = "done"]
            /\ tlocal' = [tlocal EXCEPT ![c] =
                   [seen |-> clock, since |-> issued, found |-> token_cache,
                    token |-> token_cache, src |-> "cache"]]
       ELSE /\ tpc' = [tpc EXCEPT ![c] = "refresh"]
            /\ tlocal' = [tlocal EXCEPT ![c] =
                   [seen |-> clock, since |-> issued, found |-> token_cache,
                    token |-> NoToken, src |-> "none"]]
    /\ UNCHANGED <<sideVars, engineVars, token_cache, clock, issued, stopped_at>>

\* self.fetch_access_token().await?, with no guard held
fetch_access_token(c) ==
    /\ tpc[c] = "refresh"
    /\ \/ /\ issued < MaxIssued
          /\ \E expires_in \in ExpiresIn :
                tlocal' = [tlocal EXCEPT ![c].token =
                   [access_token |-> issued + 1, obtained_at |-> clock,
                    expires_at |-> clock + expires_in]]
          /\ issued' = issued + 1
          /\ tpc' = [tpc EXCEPT ![c] = "store"]
       \/ /\ tlocal' = [tlocal EXCEPT ![c].src = "error"]
          /\ tpc' = [tpc EXCEPT ![c] = "done"]
          /\ UNCHANGED issued
    /\ UNCHANGED <<sideVars, engineVars, token_cache, clock, stopped_at>>

\* the write guard, *cache = Some(token.clone()) and the return
store_token(c) ==
    /\ tpc[c] = "store"
    /\ token_cache' = tlocal[c].token
    /\ tlocal' = [tlocal EXCEPT ![c].src = "refresh"]
    /\ tpc' = [tpc EXCEPT ![c] = "done"]
    /\ UNCHANGED <<sideVars, engineVars, clock, issued, stopped_at>>

\* the caller takes the result; it may call again
token_taken(c) ==
    /\ tpc[c] = "done"
    /\ tpc' = [tpc EXCEPT ![c] = "idle"]
    /\ tlocal' = [tlocal EXCEPT ![c] = NoLocal]
    /\ UNCHANGED <<sideVars, engineVars, token_cache, clock, issued, stopped_at>>

\* a send call that has not reached FCM's answer yet
NoSent == [reply |-> "none", result |-> "none", requests |-> 0]

\* FcmClient::send after get_access_token has returned: on a bearer the POST
\* to the messages endpoint and the classification of its answer, on a
\* TokenError the return through the ? operator
fcm_send(c) ==
    /\ tpc[c] = "done"
    /\ \E reply \in FcmReplies :
          /\ reply.kind = "bearer" <=> tlocal[c].src = "error"
          /\ sent' = [sent EXCEPT ![c] =
                [reply |-> reply, result |-> FcmSend(reply),
                 requests |-> IF tlocal[c].src = "error" THEN 0 ELSE 1]]
    /\ tpc' = [tpc EXCEPT ![c] = "sent"]
    /\ UNCHANGED <<selectVars, mgrVars, engineVars, wsVars, logVars, loopVars, token_cache, clock, tlocal,
                   issued, stopped_at>>

\* the caller of send takes the result; it may send again
send_returned(c) ==
    /\ tpc[c] = "sent"
    /\ tpc' = [tpc EXCEPT ![c] = "idle"]
    /\ tlocal' = [tlocal EXCEPT ![c] = NoLocal]
    /\ sent' = [sent EXCEPT ![c] = NoSent]
    /\ UNCHANGED <<selectVars, mgrVars, engineVars, wsVars, logVars, loopVars, token_cache, clock, issued,
                   stopped_at>>

\* wall-clock time passes
Elapse ==
    /\ clock < MaxClock
    /\ clock' = clock + ClockStep
    /\ UNCHANGED <<sideVars, engineVars, token_cache, tpc, tlocal, issued, stopped_at>>

(***************************************************************************)
(* WebSocket fan-out: the ticket store and the connection map.             *)
(***************************************************************************)
Handlers == 1..MaxHandlers
TicketIds == 1..MaxTickets

\* where the WsSender that handle_connection owns (its local tx) lives
TxAddr(h) == [region |-> "task", owner |-> "none", slot |-> h]

\* where element k of the Vec<WsSender> of user u lives
VecAddr(u, k) == [region |-> "vec", owner |-> u, slot |-> k]

\* std::ptr::eq(s, sender): the two references point to the same place
ptr_eq(a, b) == a = b

\* senders.retain(|s| !std::ptr::eq(s, sender)), from element k on
RECURSIVE retain(_, _, _, _)
retain(senders, u, sender, k) ==
    IF k > Len(senders) THEN <<>>
    ELSE (IF ptr_eq(VecAddr(u, k), sender) THEN <<>> ELSE <<senders[k]>>)
         \o retain(senders, u, sender, k + 1)

\* mutant: the entry is created and the sender of a first connection is not
\* pushed
connect_EntryOnly(conns, u, ch) ==
    IF u \in DOMAIN conns
    THEN [conns EXCEPT ![u] = Append(@, ch)]
    ELSE [v \in DOMAIN conns \cup {u} |-> IF v = u THEN <<>> ELSE conns[v]]

\* connections.entry(user_id).or_default().push(sender)
connect(conns, u, ch) ==
    IF u \in DOMAIN conns
    THEN [conns EXCEPT ![u] = Append(@, ch)]
    ELSE [v \in DOMAIN conns \cup {u} |-> IF v = u THEN <<ch>> ELSE conns[v]]

\* ConnectionManager::disconnect
disconnect(conns, u, sender) ==
    IF u \in DOMAIN conns
    THEN LET senders == retain(conns[u], u, sender, 1)
         IN  IF senders = <<>>
             THEN [v \in DOMAIN conns \ {u} |-> conns[v]]
             ELSE [conns EXCEPT ![u] = senders]
    ELSE conns

\* ConnectionManager::connection_count
connection_count(conns, u) == IF u \in DOMAIN conns THEN Len(conns[u]) ELSE 0

\* mutant: a ticket never expires
is_expired_Never(ticket, t) == FALSE

\* WsTicket::is_expired
is_expired(ticket, t) == t - ticket.created_at > TicketTtl

\* tickets.remove(ticket_id) without the removal
validate_and_consume_Keeps(store, ticket_id, t) ==
    IF ticket_id \in DOMAIN store
    THEN [tickets |-> store,
          user |-> IF is_expired(store[ticket_id], t) THEN {}
                   ELSE {store[ticket_id].user_id}]
    ELSE [tickets |-> store, user |-> {}]

\* TicketStore::validate_and_consume, under the write guard: the store it
\* leaves and the Option<Uuid> it returns (as a set of at most one user_id)
validate_and_consume(store, ticket_id, t) ==
    IF ticket_id \in DOMAIN store
    THEN [tickets |-> [x \in DOMAIN store \ {ticket_id} |-> store[x]],
          user |-> IF is_expired(store[ticket_id], t) THEN {}
                   ELSE {store[ticket_id].user_id}]
    ELSE [tickets |-> store, user |-> {}]

\* TicketStore::create_ticket, under the write guard
create_ticket(store, ticket_id, u, t) ==
    LET live == {x \in DOMAIN store : ~is_expired(store[x], t)}
    IN  [x \in live \cup {ticket_id} |->
            IF x = ticket_id THEN [user_id |-> u, created_at |-> t]
            ELSE store[x]]

\* POST /ws-ticket of an authenticated user
ws_ticket_handler ==
    /\ minted < MaxTickets
    /\ \E u \in Users :
          /\ tickets' = create_ticket(tickets, minted + 1, u, clock)
          /\ issued_to' = [issued_to EXCEPT ![minted + 1] = u]
    /\ minted' = minted + 1
    /\ UNCHANGED <<selectVars, mgrVars, engineVars, bearerVars, stopped_at, logVars, sent, loopVars, connections,
                   hpc, huser, validated, upgrades, refused, last_upgrade>>

\* WsParams.user_id is None
NoParam == "absent"

\* WsParams.ticket is None
NoTicket == 0

\* no upgrade request has been answered yet
NoUpgrade == [ticket |-> FALSE, user_id |-> FALSE, status |-> 0]

\* mutant: a request whose ticket does not validate falls back to its user_id
authenticate_FallsBack(store, ticket, user_id, t) ==
    LET r == IF ticket = NoTicket THEN [tickets |-> store, user |-> {}]
             ELSE validate_and_consume(store, ticket, t)
    IN  IF r.user # {}
        THEN [tickets |-> r.tickets, status |-> 101, user |-> r.user]
        ELSE IF user_id # NoParam
             THEN [tickets |-> r.tickets, status |-> 101, user |-> {user_id}]
             ELSE [tickets |-> r.tickets,
                   status |-> IF ticket = NoTicket THEN 400 ELSE 401,
                   user |-> {}]

\* ws_handler: the ticket store it leaves, the status it answers with (101
\* for the upgrade) and the user handle_connection runs for
authenticate(store, ticket, user_id, t) ==
    IF ticket # NoTicket
    THEN LET r == validate_and_consume(store, ticket, t)
         IN  [tickets |-> r.tickets,
              status |-> IF r.user # {} THEN 101 ELSE 401,
              user |-> r.user]
    ELSE IF user_id # NoParam
         THEN [tickets |-> store, status |-> 101, user |-> {user_id}]
         ELSE [tickets |-> store, status |-> 400, user |-> {}]

\* the answer to an upgrade request and, on 101, handle_connection up to its
\* connect call
Upgrade(ticket, user_id) ==
    LET r == authenticate(tickets, ticket, user_id, clock)
        by_ticket == ticket # NoTicket /\ r.status = 101
                     /\ r.user = validate_and_consume(tickets, ticket, clock).user
    IN  /\ tickets' = r.tickets
        /\ last_upgrade' = [ticket |-> ticket # NoTicket,
                            user_id |-> user_id # NoParam,
                            status |-> r.status]
        /\ validated' = IF by_ticket
                        THEN [validated EXCEPT ![ticket] = @ \cup r.user]
                        ELSE validated
        /\ upgrades' = IF by_ticket
                       THEN [upgrades EXCEPT ![ticket] = @ + 1]
                       ELSE upgrades
        /\ refused' = IF ticket # NoTicket /\ ~by_ticket /\ ticket <= minted
                      THEN refused \cup {ticket} ELSE refused
        /\ IF r.user # {}
           THEN \E h \in Handlers :
                   LET u == CHOOSE x \in r.user : TRUE IN
                   \* on_upgrade spawns the next task
                   /\ hpc[h] = "idle"
                   /\ \A g \in Handlers : g < h => hpc[g] # "idle"
                   /\ connections' = connect(connections, u, h)
                   /\ hpc' = [hpc EXCEPT ![h] = "open"]
                   /\ huser' = [huser EXCEPT ![h] = u]
           ELSE UNCHANGED <<connections, hpc, huser>>
        /\ UNCHANGED <<selectVars, mgrVars, engineVars, bearerVars, stopped_at, logVars, sent,
                       loopVars, minted, issued_to>>

\* GET /ws?ticket=...[&user_id=...]
ws_handler ==
    \E ticket \in TicketIds, user_id \in Users \cup {NoParam} :
        /\ ticket # NoTicket
        /\ Upgrade(ticket, user_id)

\* GET /ws without a ticket: ?user_id=..., or no parameter at all
ws_handler_direct ==
    \E user_id \in Users \cup {NoParam} :
        /\ NoTicket \notin TicketIds
        /\ Upgrade(NoTicket, user_id)

\* handle_connection from its connect call to its return: the welcome
\* message fails or the receive loop ends, then manager.disconnect(user_id, &tx)
handle_connection ==
    \E h \in Handlers :
       /\ hpc[h] = "open"
       /\ connections' = disconnect(connections, huser[h], TxAddr(h))
       /\ hpc' = [hpc EXCEPT ![h] = "returned"]
       /\ UNCHANGED <<selectVars, mgrVars, engineVars, bearerVars, stopped_at, logVars, sent, loopVars, huser,
                      tickets, minted, issued_to, validated, upgrades, refused,
                      last_upgrade>>

(***************************************************************************)
(* ConnectionManager: the queries and send_to_user.                        *)
(***************************************************************************)
\* ConnectionManager::is_connected
is_connected(conns, u) == IF u \in DOMAIN conns THEN conns[u] # <<>> ELSE FALSE

\* connections.values().map(|v| v.len()).sum(), over the keys in keys
RECURSIVE SumLen(_, _)
SumLen(conns, keys) ==
    IF keys = {} THEN 0
    ELSE LET k == CHOOSE x \in keys : TRUE
         IN  Len(conns[k]) + SumLen(conns, keys \ {k})

\* ConnectionManager::total_connections
total_connections(conns) == SumLen(conns, DOMAIN conns)

\* no send_to_user call has been made yet
NoSend == [user |-> "none", success_count |-> 0, failed_count |-> 0]

\* sender.send(message): Ok while the Receiver of the channel is alive
sender_send(ch, closed) == IF ch \in closed THEN "Err" ELSE "Ok"

\* mutant: the senders whose send failed are removed from the map
send_to_user_Prunes(conns, u, closed) ==
    IF u \notin DOMAIN conns
    THEN [connections |-> conns, success_count |-> 0, failed_count |-> 0]
    ELSE LET senders == conns[u]
             ok == {k \in DOMAIN senders : sender_send(senders[k], closed) = "Ok"}
         IN  [connections |->
                 [conns EXCEPT ![u] = SelectSeq(senders, LAMBDA ch : ch \notin closed)],
              success_count |-> Cardinality(ok),
              failed_count |-> Len(senders) - Cardinality(ok)]

\* ConnectionManager::send_to_user, under the read guard: the map it leaves
\* and what it counted; success_count is the value it returns
send_to_user(conns, u, closed) ==
    IF u \notin DOMAIN conns
    THEN [connections |-> conns, success_count |-> 0, failed_count |-> 0]
    ELSE LET senders == conns[u]
             ok == {k \in DOMAIN senders : sender_send(senders[k], closed) = "Ok"}
         IN  [connections |-> conns,
              success_count |-> Cardinality(ok),
              failed_count |-> Len(senders) - Cardinality(ok)]

\* a caller sends a message to a user
send_message ==
    \E u \in Users :
       LET r == send_to_user(connections, u, rx_dropped)
       IN  /\ connections' = r.connections
           /\ last_send' = [user |-> u, success_count |-> r.success_count,
                            failed_count |-> r.failed_count]
           /\ UNCHANGED <<selectVars, engineVars, bearerVars, stopped_at, logVars, sent, loopVars,
                          rx_dropped, hpc, huser, tickets, minted, issued_to,
                          validated, upgrades, refused, last_upgrade>>

\* the forwarder task of a connection ends (the WebSocket send failed, or
\* handle_connection aborted it) and drops the Receiver
send_task_ends ==
    \E h \in Handlers :
       /\ hpc[h] \in {"open", "returned"}
       /\ h \notin rx_dropped
       /\ rx_dropped' = rx_dropped \cup {h}
       /\ UNCHANGED <<selectVars, engineVars, bearerVars, stopped_at, logVars, sent, loopVars,
                      wsVars, last_send>>

(***************************************************************************)
(* Token fields of log lines.                                              *)
(***************************************************************************)
Dot == 0     \* the character '.'
Star == -1   \* the character '*'

\* a device token of n characters, all different from '.' and '*'
TokenOfLen(n) == [k \in 1..n |-> k]

\* queries.rs: fn mask_token; processor.rs and fcm.rs: fn mask_token
mask_token(token) ==
    IF Len(token) > 12
    THEN SubSeq(token, 1, 6) \o <<Dot, Dot, Dot>>
         \o SubSeq(token, Len(token) - 3, Len(token))
    ELSE IF Len(token) > 4
         THEN SubSeq(token, 1, 4) \o <<Dot, Dot, Dot>>
         ELSE <<Star, Star, Star, Star>>

\* get_user_devices: let token_preview = ...
token_preview(token) ==
    IF Len(token) > 8
    THEN SubSeq(token, 1, 8) \o <<Dot, Dot, Dot>>
    ELSE token

\* the log after the named site has written a line whose token field is text
Emit(site, text) == log \cup {[site |-> site, token |-> text]}

\* NotificationQueries::get_user_devices: trace!("  Device {}: ... token={}")
log_get_user_devices ==
    /\ log' = Emit("get_user_devices", token_preview(device_token))
    /\ log' # log
    /\ UNCHANGED <<selectVars, mgrVars, engineVars, bearerVars, stopped_at, wsVars, sent, loopVars, log_fcm_tokens,
                   device_token>>

\* NotificationQueries::remove_device: its span field and its events
log_remove_device ==
    /\ log' = Emit("remove_device", mask_token(device_token))
    /\ log' # log
    /\ UNCHANGED <<selectVars, mgrVars, engineVars, bearerVars, stopped_at, wsVars, sent, loopVars, log_fcm_tokens,
                   device_token>>

\* send_via_push: token = %token_preview
log_send_via_push ==
    /\ log' = Emit("send_via_push", mask_token(device_token))
    /\ log' # log
    /\ UNCHANGED <<selectVars, mgrVars, engineVars, bearerVars, stopped_at, wsVars, sent, loopVars, log_fcm_tokens,
                   device_token>>

\* FcmClient::send: token = %token_preview
log_fcm_send ==
    /\ log' = Emit("FcmClient::send", mask_token(device_token))
    /\ log' # log
    /\ UNCHANGED <<selectVars, mgrVars, engineVars, bearerVars, stopped_at, wsVars, sent, loopVars, log_fcm_tokens,
                   device_token>>

(***************************************************************************)
(* Environment: producers and the clock.                                   *)
(***************************************************************************)
\* the NOTIFY of a committed change reaches the session if there is one
Publish(tag) == IF InSession THEN Append(inbox, tag) ELSE inbox

\* INSERT INTO activity.notifications, with deliver_at = now() + delay, and
\* the NOTIFY it triggers
InsertRow(delay, limit) ==
    /\ Len(rows) < limit
    /\ Len(inbox) < MaxInbox
    /\ \E u \in Users :
          rows' = Append(rows, [user_id |-> u, deliver_at |-> now + delay,
                                is_processed |-> FALSE, retry_count |-> 0,
                                last_error |-> NoError])
    /\ inbox' = Publish(Len(rows) + 1)
    /\ UNCHANGED <<sideVars, bearerVars, stopped_at, now, devices, bus_client, fcm_client, wake, lstate, notifies,
                   announced, received, notify_unseen, pc, batch, pushVars, bcastVars, outcome, calls,
                   histVars, faults>>

\* a row to deliver at once (deliver_at defaults to now())
Insert == InsertRow(0, MaxRows)

\* a row scheduled for later
InsertScheduled == InsertRow(1, MaxRows)

\* a row to deliver at once, in the specifications with a listener
InsertAnnounced == InsertRow(0, MaxWakeRows)

\* a NOTIFY on notify_event that announces no new row (payloads are not parsed)
NotifyUpTo(limit) ==
    /\ notifies < limit
    /\ Len(inbox) < MaxInbox
    /\ notifies' = notifies + 1
    /\ inbox' = Publish(0)
    /\ UNCHANGED <<sideVars, bearerVars, stopped_at, envVars, wake, lstate, announced, received, notify_unseen, pc, batch,
                   pushVars, bcastVars, outcome, calls, histVars, faults>>

Notify == NotifyUpTo(MaxNotify)

\* a burst of such events, larger than the wake channel
NotifyBurst == NotifyUpTo(WakeCapacity + MaxNotify)

Tick ==
    /\ now < MaxTime
    /\ now' = now + 1
    /\ UNCHANGED <<sideVars, bearerVars, stopped_at, rows, devices, bus_client, fcm_client, listenerVars, pc,
                   batch, pushVars, bcastVars, outcome, calls, histVars, faults>>

(***************************************************************************)
(* Specification.                                                          *)
(***************************************************************************)
\* the state after construction, the log configuration aside
InitEngine ==
    /\ rows = <<>>
    /\ now = 0
    /\ devices \in SUBSET {[fcm_token |-> t, user_id |-> U1] : t \in Tokens}
    /\ bus_client \in BOOLEAN
    /\ fcm_client \in BOOLEAN
    /\ wake = 0
    /\ lstate = "disconnected"
    /\ inbox = <<>>
    /\ notifies = 0
    /\ announced = {}
    /\ received = 0
    /\ notify_unseen = FALSE
    /\ pc = "fetch"
    /\ batch = <<>>
    /\ devs = <<>>
    /\ success_count = 0
    /\ last_error = NoError
    /\ bus_success = FALSE
    /\ push_success = FALSE
    /\ outcome = NoOutcome
    /\ calls = NoCalls
    /\ attempts = [i \in 1..MaxRows |-> 0]
    /\ bus_hits = {}
    /\ woken = 0
    /\ drain_aborted = FALSE
    /\ due = {}
    /\ faults = 0
    /\ token_cache = NoToken
    /\ clock = 0
    /\ tpc = [c \in Callers |-> "idle"]
    /\ tlocal = [c \in Callers |-> NoLocal]
    /\ issued = 0
    /\ stopped_at = "none"
    /\ connections = <<>>
    /\ hpc = [h \in Handlers |-> "idle"]
    /\ huser = [h \in Handlers |-> NilUuid]
    /\ tickets = <<>>
    /\ minted = 0
    /\ issued_to = [t \in TicketIds |-> NilUuid]
    /\ validated = [t \in TicketIds |-> {}]
    /\ upgrades = [t \in TicketIds |-> 0]
    /\ refused = {}
    /\ last_upgrade = NoUpgrade
    /\ log = {}
    /\ sent = [c \in Callers |-> NoSent]
    /\ signals = 0
    /\ dropped = 0
    /\ last_exit = "none"
    /\ waited = 0
    /\ slept = 0
    /\ recv_disabled = FALSE
    /\ rx_dropped = {}
    /\ last_send = NoSend

Init ==
    /\ InitEngine
    /\ log_fcm_tokens = FALSE
    /\ device_token = TokenOfLen(MaxTokenLen)

\* process_all_pending and process_one
Drain ==
    \/ FetchBatch
    \/ process_one
    \/ send_via_bus
    \/ send_via_push
    \/ send_to_device
    \/ broadcast_bus
    \/ broadcast_push
    \/ mark_outcome

Listener ==
    \/ listener_connect
    \/ listener_recv
    \/ listener_error

(***************************************************************************)
(* Spec: the delivery engine with the store, the sinks, the producers and  *)
(* the clock.  The listener has no session (its connection attempts fail), *)
(* so the wake channel stays empty and the worker is woken by the          *)
(* failsafe timeout alone.                                                 *)
(***************************************************************************)
Next == Drain \/ wake_timeout \/ Insert

Spec == Init /\ [][Next]_vars

(***************************************************************************)
(* LiveSpec: Spec with a worker task that the runtime keeps scheduling:    *)
(* every await of the worker returns and the poll timer fires.             *)
(***************************************************************************)
LiveSpec == Spec /\ WF_vars(Drain \/ wake_timeout)

(***************************************************************************)
(* SpecOutage: Spec while the database answers reads and rejects writes:   *)
(* every fetch_unprocessed and get_user_devices call returns as in Spec,   *)
(* every outcome call returns Err.  LiveOutage adds a worker task that the *)
(* runtime keeps scheduling.                                               *)
(***************************************************************************)
DrainOutage ==
    \/ FetchBatch
    \/ process_one
    \/ send_via_bus
    \/ send_via_push
    \/ send_to_device
    \/ broadcast_bus
    \/ broadcast_push
    \/ mark_outcome_outage

NextOutage == DrainOutage \/ wake_timeout \/ Insert

SpecOutage == Init /\ [][NextOutage]_vars

LiveOutage == SpecOutage /\ WF_vars(DrainOutage \/ wake_timeout)

(***************************************************************************)
(* SpecSched: Spec with the clock and with producers that schedule rows.   *)
(***************************************************************************)
NextSched == Next \/ InsertScheduled \/ Tick

SpecSched == Init /\ [][NextSched]_vars

(***************************************************************************)
(* SpecWide: Spec for a service configured with a batch of more than one   *)
(* row.                                                                    *)
(***************************************************************************)
NextWide ==
    \/ FetchWide
    \/ process_one
    \/ send_via_bus
    \/ send_via_push
    \/ send_to_device
    \/ broadcast_bus
    \/ broadcast_push
    \/ mark_outcome
    \/ wake_timeout
    \/ Insert

SpecWide == Init /\ [][NextWide]_vars

(***************************************************************************)
(* SpecWake: the listener, the wake channel and the delivery engine, in    *)
(* the time between the start of the worker and the first expiry of the    *)
(* poll timer: the worker runs its start-up drain and is then woken by     *)
(* wake signals alone.  LiveWake adds a worker task that the runtime       *)
(* keeps scheduling.                                                       *)
(***************************************************************************)
NextWake == Drain \/ wake_recv \/ Listener \/ InsertAnnounced \/ Notify

SpecWake == Init /\ [][NextWake]_vars

LiveWake == SpecWake /\ WF_vars(Drain \/ wake_recv)

(***************************************************************************)
(* SpecBurst: the listener and the wake channel under bursts of NOTIFY     *)
(* events, with a service that has neither a bus nor an FCM client and no  *)
(* registered device.                                                      *)
(***************************************************************************)
InitBurst == Init /\ ~bus_client /\ ~fcm_client /\ devices = {}

NextBurst ==
    \/ FetchBatch
    \/ process_one
    \/ send_via_push
    \/ mark_outcome
    \/ wake_recv
    \/ wake_timeout
    \/ Listener
    \/ InsertAnnounced
    \/ NotifyBurst

SpecBurst == InitBurst /\ [][NextBurst]_vars

\* SpecBurst with a worker task that the runtime keeps scheduling; nothing
\* is assumed about the poll timer
LiveBurst ==
    SpecBurst /\ WF_vars(FetchBatch \/ process_one \/ send_via_push
                            \/ mark_outcome \/ wake_recv)

(***************************************************************************)
(* SpecOrphan: SpecBurst with the select of run modelled branch by branch, *)
(* single NOTIFY events, and a listener task that may end.  LiveOrphan     *)
(* adds a worker task that the runtime keeps scheduling and a clock that   *)
(* advances.                                                               *)
(***************************************************************************)
Select == select_recv \/ select_pending \/ select_timeout

NextOrphan ==
    \/ FetchBatch
    \/ process_one
    \/ send_via_push
    \/ mark_outcome
    \/ Select
    \/ Listener
    \/ listener_gone
    \/ InsertAnnounced
    \/ Notify

SpecOrphan == InitBurst /\ [][NextOrphan]_vars

LiveOrphan ==
    SpecOrphan /\ WF_vars(FetchBatch \/ process_one \/ send_via_push
                             \/ mark_outcome \/ Select)

(***************************************************************************)
(* SpecNoDevices: Spec for a service in whose database no device is        *)
(* registered.                                                             *)
(***************************************************************************)
InitNoDevices == Init /\ devices = {}

NextNoDevices ==
    \/ FetchBatch
    \/ process_one
    \/ send_via_bus
    \/ send_via_push
    \/ broadcast_bus
    \/ broadcast_push
    \/ mark_outcome
    \/ wake_timeout
    \/ Insert

SpecNoDevices == InitNoDevices /\ [][NextNoDevices]_vars

(***************************************************************************)
(* SpecStop: Spec with a shutdown signal.                                  *)
(***************************************************************************)
NextStop == Next \/ shutdown

SpecStop == Init /\ [][NextStop]_vars

(***************************************************************************)
(* SpecBearer: the bearer cache of the push sink under overlapping         *)
(* get_access_token calls; the delivery engine stands still.               *)
(***************************************************************************)
NextBearer ==
    \/ \E c \in Callers : get_access_token(c)
    \/ \E c \in Callers : fetch_access_token(c)
    \/ \E c \in Callers : store_token(c)
    \/ \E c \in Callers : token_taken(c)
    \/ Elapse

SpecBearer == InitBurst /\ [][NextBearer]_vars

(***************************************************************************)
(* The listener call by call, with a burst of NOTIFY events, a worker that *)
(* takes wake signals off the channel and finds no row, and the end of the *)
(* worker task.                                                            *)
(***************************************************************************)
ListenLoop ==
    \/ listen_loop_connect
    \/ listen_loop_listen
    \/ listen_loop_recv
    \/ listen_loop_try_send
    \/ listen_sleep

NextListen ==
    \/ ListenLoop
    \/ NotifyBurst
    \/ wake_recv
    \/ FetchBatch
    \/ shutdown

SpecListen == InitBurst /\ [][NextListen]_vars

\* the listener task is scheduled whenever it can take a step
LiveListen == SpecListen /\ WF_vars(ListenLoop)

(***************************************************************************)
(* FcmClient::send calls: the bearer, then the request and its answer.     *)
(***************************************************************************)
NextSend ==
    \/ \E c \in Callers : get_access_token(c)
    \/ \E c \in Callers : fetch_access_token(c)
    \/ \E c \in Callers : store_token(c)
    \/ \E c \in Callers : fcm_send(c)
    \/ \E c \in Callers : send_returned(c)
    \/ Elapse

SpecSend == InitBurst /\ [][NextSend]_vars

(***************************************************************************)
(* The WebSocket endpoint alone: tickets, upgrades and connections.        *)
(***************************************************************************)
NextWs ==
    \/ ws_ticket_handler
    \/ ws_handler
    \/ ws_handler_direct
    \/ handle_connection
    \/ Elapse

SpecWs == InitBurst /\ [][NextWs]_vars

(***************************************************************************)
(* SpecManager: the ConnectionManager with connections that authenticate   *)
(* by user_id, their forwarder tasks, and callers of send_to_user.         *)
(***************************************************************************)
NextManager ==
    \/ ws_handler_direct
    \/ handle_connection
    \/ send_task_ends
    \/ send_message

SpecManager == InitBurst /\ [][NextManager]_vars

(***************************************************************************)
(* The log lines that carry a device token, for one token of each length   *)
(* and both settings of DEBUG_LOG_FCM_TOKENS.                              *)
(***************************************************************************)
InitLog ==
    /\ InitEngine
    /\ ~bus_client /\ ~fcm_client /\ devices = {}
    /\ log_fcm_tokens \in BOOLEAN
    /\ device_token \in {TokenOfLen(n) : n \in 1..MaxTokenLen}

NextLog ==
    \/ log_get_user_devices
    \/ log_remove_device
    \/ log_send_via_push
    \/ log_fcm_send

SpecLog == InitLog /\ [][NextLog]_vars

(***************************************************************************)
(* Properties.                                                             *)
(***************************************************************************)
\* process_one has returned for row calls.id and nothing has reset the log
Returned == calls.result # "none"

ToSet(q) == {q[k] : k \in DOMAIN q}

Count(q, x) == Cardinality({k \in DOMAIN q : q[k] = x})

Recipient == rows[calls.id].user_id

\* C1: in one process_one invocation (user path or broadcast path) at most
\* one outcome call is made: mark_success and mark_failure are never both
\* called and neither is called twice.
C1_AtMostOneOutcomeCall == calls.mark_success + calls.mark_failure <= 1

C1_Witness ==
    /\ Returned
    /\ calls.publish_to_user = 1
    /\ Len(calls.sends) = 2
    /\ calls.mark_failure = 1

\* C2: for a non-broadcast row, when publish_to_user reports
\* delivered_to > 0, process_one calls mark_success and returns a bus
\* delivery, without a device lookup and without a push send.
C2_BusDeliverySkipsPush ==
    calls.bus_reply = "delivered" =>
        /\ calls.get_user_devices = 0
        /\ calls.sends = <<>>
        /\ calls.mark_failure = 0
        /\ IF pc = "mark"
           THEN outcome.sp = "success" /\ outcome.result = "Bus"
           ELSE calls.mark_success = 1 /\ calls.result = "Bus"

C2_Witness ==
    /\ Returned
    /\ calls.bus_reply = "delivered"
    /\ calls.registered # {}
    /\ fcm_client
    /\ calls.result = "Bus"

\* C3 as stated: after a zero fan-out, a recipient with at least one
\* registered device gets one push send per device and the row is marked
\* success with a push result.
C3_ZeroFanOutAlwaysPush ==
    (Returned /\ calls.bus_reply = "zero" /\ calls.registered # {}) =>
        /\ ToSet(calls.sends) = calls.registered
        /\ Len(calls.sends) = Cardinality(calls.registered)
        /\ calls.mark_success = 1
        /\ calls.result = "Push"
        /\ rows[calls.id].is_processed

\* C3 amended: after a zero fan-out, with the push sink configured and a
\* device lookup that returns at least one device, process_one issues exactly
\* one push send to each device found; if at least one send succeeds,
\* mark_success is called with a push result (is_processed becomes true
\* unless that call fails), and if none succeeds mark_failure is called.
C3_ZeroFanOutPushFallback ==
    (Returned /\ calls.bus_reply = "zero" /\ calls.found # {}) =>
        /\ calls.found = calls.registered
        /\ ToSet(calls.sends) = calls.found
        /\ \A t \in calls.found : Count(calls.sends, t) = 1
        /\ IF calls.oks # {}
           THEN /\ calls.mark_success = 1
                /\ calls.mark_failure = 0
                /\ calls.result = "Push"
                /\ ~calls.sp_err => rows[calls.id].is_processed
           ELSE /\ calls.mark_failure = 1
                /\ calls.mark_success = 0
                /\ calls.result = "Failed"

C3_Witness ==
    /\ Returned
    /\ calls.bus_reply = "zero"
    /\ Cardinality(calls.found) = 2
    /\ Cardinality(calls.oks) = 1
    /\ calls.result = "Push"
    /\ rows[calls.id].is_processed

\* C4: a row whose recipient is the nil identifier is handled by the
\* broadcast sub-procedure only: no publish_to_user, no device lookup and no
\* per-device push happens for it, and mark_success is called for it exactly
\* once (and mark_failure never) whatever the bus and the push sink answer.
C4_BroadcastMarkedOnce ==
    (calls.id # 0 /\ Recipient = NilUuid) =>
        /\ calls.publish_to_user = 0
        /\ calls.get_user_devices = 0
        /\ calls.sends = <<>>
        /\ calls.mark_failure = 0
        /\ calls.publish_topic = (IF bus_client /\ pc \notin {"bcast_bus"} THEN 1 ELSE 0)
        /\ Returned => calls.mark_success = 1

C4_Witness ==
    /\ Returned
    /\ Recipient = NilUuid
    /\ calls.publish_topic = 1
    /\ calls.send_to_topic = 1
    /\ calls.result = "Failed"
    /\ calls.mark_success = 1

\* C5: a row whose deliver_at lies in the future is not returned by
\* fetch_unprocessed: a row is claimed (fetched, attempted or marked
\* processed) only once its deliver_at has been reached.
C5_ScheduledRowNotClaimed ==
    \A i \in DOMAIN rows :
        (i \in ToSet(batch) \/ attempts[i] > 0 \/ rows[i].is_processed)
            => rows[i].deliver_at <= now

C6_EveryRowTerminates ==
    /\ \A i \in 1..MaxRows :
          (i \in DOMAIN rows) ~> (i \in DOMAIN rows /\ rows[i].is_processed)
    /\ [][\A i \in DOMAIN rows :
             (~rows[i].is_processed /\ rows'[i].is_processed)
                => /\ pc = "mark"
                   /\ calls.id = i
                   /\ \/ outcome.sp = "success"
                      \/ /\ outcome.sp = "failure"
                         /\ rows'[i].retry_count = max_retries]_vars

C6_Witness ==
    /\ Len(rows) = 2
    /\ rows[1].is_processed /\ rows[1].retry_count = max_retries
    /\ rows[2].is_processed /\ rows[2].retry_count = 0
    /\ faults > 0

\* the row is a user row that the bus never delivered, with no push sink
NoSinkFor(i) == ~fcm_client /\ rows[i].user_id # NilUuid /\ i \notin bus_hits

FcmNotConfiguredAttempt(i) ==
    (Returned /\ calls.id = i) =>
        /\ calls.mark_failure = 1
        /\ calls.mark_success = 0
        /\ calls.reason = "FCM not configured"
        /\ calls.get_user_devices = 0

\* C8 as stated: with the push sink unconfigured and no bus subscribers,
\* every attempt records "FCM not configured" through mark_failure without a
\* device lookup, and the row is attempted exactly max_retries times, after
\* which is_processed is true and the row is not attempted again.
C8_ExactlyMaxRetriesAttempts ==
    \A i \in DOMAIN rows :
        NoSinkFor(i) =>
            /\ FcmNotConfiguredAttempt(i)
            /\ attempts[i] <= max_retries
            /\ rows[i].is_processed => attempts[i] = max_retries

\* C8 amended: with the push sink unconfigured and no bus subscribers, every
\* attempt calls mark_failure with "FCM not configured" without a device
\* lookup; the row is attempted until max_retries of these calls have been
\* recorded (exactly max_retries times when no call fails with a persistence
\* error, once more for each call that fails); then is_processed is true and
\* the row is not attempted again.
C8_AttemptsUntilCeiling ==
    /\ [](\A i \in DOMAIN rows :
            NoSinkFor(i) =>
                /\ FcmNotConfiguredAttempt(i)
                /\ rows[i].retry_count <= attempts[i]
                /\ attempts[i] <= rows[i].retry_count + faults
                                  + (IF calls.id = i /\ ~Returned THEN 1 ELSE 0)
                /\ rows[i].is_processed <=> rows[i].retry_count = max_retries)
    /\ [][\A i \in DOMAIN rows :
             (NoSinkFor(i) /\ rows[i].is_processed) => attempts'[i] = attempts[i]]_vars

C8_Witness ==
    /\ ~fcm_client
    /\ Len(rows) >= 1
    /\ NoSinkFor(1)
    /\ calls.publish_to_user = 1
    /\ rows[1].is_processed
    /\ attempts[1] = max_retries
    /\ faults = 0

AbortedAndIdle == pc = "wait" /\ drain_aborted /\ wake = 0

C11_NotifyNeverLost ==
    /\ [](notify_unseen => (wake > 0 \/ pc = "fetch"))
    /\ [][received' > received => wake' > 0]_vars
    /\ (notify_unseen ~> ~notify_unseen)

\* a NOTIFY was dropped by the full channel and a woken cycle has fetched
\* since the last NOTIFY
C11_Witness ==
    /\ received > WakeCapacity
    /\ woken + wake < received
    /\ woken > 0
    /\ ~notify_unseen

\* C12: with no wake signal, the drain that a poll-interval timeout starts
\* attempts every row pending at the timeout: when the worker waits again,
\* each of them has is_processed true or an advanced retry_count.
C12_TimeoutAttemptsPending == pc = "wait" => due = {}

\* C12 amended: with no wake signal, the drain that a poll-interval timeout
\* starts attempts every row pending at the timeout, and when the worker
\* waits again each of them has is_processed true or an advanced
\* retry_count, unless a fetch_unprocessed call of that drain fails: the
\* failing fetch ends the drain and the rows not yet recorded wait for the
\* next timeout.  No row is lost: rows are never removed from the queue and
\* a processed row never changes.
C12_TimeoutDrainsPending ==
    /\ (pc = "wait" ~> pc = "fetch")
    /\ []((pc = "wait" /\ ~drain_aborted) => due = {})
    /\ [][/\ Len(rows') >= Len(rows)
          /\ \A i \in DOMAIN rows :
                /\ rows'[i].user_id = rows[i].user_id
                /\ rows[i].is_processed => rows'[i] = rows[i]]_vars

\* a drain started by the timeout has attempted a row that was pending then
C12_Witness ==
    /\ pc = "mark"
    /\ calls.id \in due
    /\ outcome.sp = "failure"
    /\ wake = 0
    /\ lstate = "disconnected"

\* get_access_token calls that are refreshing: between the failed check and
\* the store of the new bearer
Refreshing == {c \in Callers : tpc[c] \in {"refresh", "store"}}

\* C13: when get_access_token calls overlap while the cached bearer is
\* absent or within the margin, a single refresh is in flight: one caller
\* refreshes and the others wait for and reuse its bearer.
C13_SingleInFlightRefresh == Cardinality(Refreshing) <= 1

\* C14: get_access_token returns the cached bearer only if its expires_at
\* exceeds the observed now by more than 60 seconds; a call that finds the
\* cache empty or the bearer within the margin refreshes in the same call
\* and returns the bearer it fetched (or the refresh error), never the one
\* it found.
C14_FreshOrRefreshed ==
    \A c \in Callers :
        tpc[c] = "done" =>
            LET l == tlocal[c]
                usable == /\ l.found # NoToken
                          /\ l.found.expires_at > l.seen + SafetyMargin
            IN  /\ l.src \in {"cache", "refresh", "error"}
                /\ l.src = "cache" <=> usable
                /\ l.src = "cache" => l.token = l.found
                /\ l.src = "refresh" =>
                      /\ l.token # l.found
                      /\ l.token.access_token > l.since
                      /\ l.token.obtained_at >= l.seen
                /\ l.src = "error" => l.token = NoToken

\* a call found a bearer that had not expired but was within the margin,
\* and returned the one it fetched
C14_Witness ==
    \E c \in Callers :
        /\ tpc[c] = "done"
        /\ tlocal[c].src = "refresh"
        /\ tlocal[c].found # NoToken
        /\ tlocal[c].found.expires_at > tlocal[c].seen
        /\ tlocal[c].token # tlocal[c].found

\* C15: within one drain rows are attempted one at a time in the order the
\* fetch returned them: a batch holds at most `limit` rows, the oldest
\* pending ones in ascending creation order; the row attempted next is the
\* head of the batch, older than every other row left in it; and an
\* attempt starts only after the previous process_one has returned.
C15_InOrderOneAtATime ==
    /\ [](/\ Len(batch) <= worker_batch_size + 1
          /\ \A k, l \in DOMAIN batch : k < l => batch[k] < batch[l])
    /\ [][(pc = "fetch" /\ pc' = "one") =>
            /\ ToSet(batch') \subseteq Pending(rows)
            /\ \A i \in Pending(rows) \ ToSet(batch') :
                  /\ Len(batch') = worker_batch_size + 1
                  /\ \A b \in ToSet(batch') : b < i]_vars
    /\ [][\A i \in 1..MaxRows :
             attempts'[i] > attempts[i] =>
                /\ pc = "one"
                /\ i = Head(batch)
                /\ \A k \in 2..Len(batch) : i < batch[k]
                /\ calls.id # 0 => Returned
                /\ outcome = NoOutcome /\ devs = <<>>]_vars

\* the second row of a batch is being attempted after the first one failed
C15_Witness ==
    /\ Len(rows) = 2
    /\ pc = "mark"
    /\ calls.id = 2
    /\ batch = <<2>>
    /\ attempts[1] = 1 /\ attempts[2] = 1
    /\ ~rows[1].is_processed

\* C16: with a batch size of 1 the engine still empties a pending queue of
\* any length: every batch holds at most one row, a drain ends only when a
\* fetch fails or returns no row, so a drain that no fetch error ends leaves
\* no row pending, and every row is attempted after finitely many wake-ups.
C16_BatchOfOneDrainsQueue ==
    /\ [](Len(batch) <= worker_batch_size)
    /\ [][(pc # "wait" /\ pc' = "wait" /\ ~drain_aborted')
            => Pending(rows') = {}]_vars
    /\ \A i \in 1..MaxRows : (i \in DOMAIN rows) ~> (attempts[i] > 0)

\* a queue longer than the batch has been emptied
C16_Witness ==
    /\ pc = "wait"
    /\ ~drain_aborted
    /\ Len(rows) > worker_batch_size
    /\ Pending(rows) = {}
    /\ \A i \in DOMAIN rows : attempts[i] > 0

\* C17: on shutdown the engine completes the row it is processing, all
\* sink calls and the outcome call, before it stops: it is never stopped
\* inside a row, in particular not between a sink delivery and the outcome
\* call.
C17_RowCompletedBeforeStop ==
    pc = "stopped" => stopped_at \in {"fetch", "one", "wait"}

\* C18: within one engine cycle each row is attempted at most once; a row
\* left pending by an attempt is attempted again in a later cycle.  Before
\* the poll timer first expires the cycles are the start-up drain and one
\* per wake signal consumed.  Stated for runs without
\* persistence errors.
C18_OneAttemptPerCycle ==
    faults = 0 => \A i \in 1..MaxRows : attempts[i] <= woken + 1

\* C19: when an outcome call fails with a persistence error during a drain,
\* the engine aborts the drain: it attempts no further row and fetches no
\* further batch in this cycle.
C19_PersistenceErrorAbortsDrain == (Returned /\ calls.sp_err) => pc = "wait"

\* C20: in the broadcast sub-procedure, when both the bus publish and the
\* push topic send returned an error, a failure is recorded for the row
\* (mark_failure), not a success.
C20_BothFailedRecordsFailure ==
    (/\ Returned
     /\ Recipient = NilUuid
     /\ calls.publish_topic = 1
     /\ calls.send_to_topic = 1
     /\ calls.result = "Failed")
        => (calls.mark_failure = 1 /\ calls.mark_success = 0)

\* C20 amended: in the broadcast sub-procedure the returned result is a
\* success if either sink returned without error and Failed if none did
\* (both errored, or were not configured); in every case the row is recorded
\* with mark_success, never mark_failure, so that a broadcast row is
\* processed after one attempt and its retry_count stays 0.
C20_BroadcastAlwaysMarkedSuccess ==
    (calls.id # 0 /\ Recipient = NilUuid) =>
        /\ pc = "mark" =>
              /\ outcome.sp = "success"
              /\ outcome.result = (IF bus_success \/ push_success
                                   THEN "Bus" ELSE "Failed")
        /\ Returned =>
              /\ calls.mark_success = 1
              /\ calls.mark_failure = 0
              /\ calls.result \in {"Bus", "Failed"}
              /\ rows[calls.id].retry_count = 0
              /\ ~calls.sp_err => rows[calls.id].is_processed

\* both sinks were tried and both returned an error
C20_Witness ==
    /\ pc = "mark"
    /\ Recipient = NilUuid
    /\ calls.publish_topic = 1
    /\ calls.send_to_topic = 1
    /\ ~bus_success /\ ~push_success
    /\ outcome.sp = "success"
    /\ outcome.result = "Failed"

\* the row is a user row that the bus never delivered, with a push sink and
\* no device registered for the user
NoDeviceFor(i) ==
    /\ fcm_client
    /\ rows[i].user_id # NilUuid
    /\ i \notin bus_hits
    /\ get_user_devices(devices, rows[i].user_id) = {}

\* an attempt whose device lookup returned the empty list
NoDevicesAttempt(i) ==
    /\ calls.id = i => pc # "send"
    /\ (Returned /\ calls.id = i /\ ~calls.lookup_err) =>
        /\ calls.get_user_devices = 1
        /\ calls.sends = <<>>
        /\ calls.mark_failure = 1
        /\ calls.mark_success = 0
        /\ calls.reason = "No registered devices"

\* C21: for a user row with no bus subscribers and an empty device list,
\* every attempt ends in mark_failure with "No registered devices" and no
\* push send; after max_retries attempts the row is permanently failed.
C21_NoDevicesFailsAfterMaxRetries ==
    \A i \in DOMAIN rows :
        NoDeviceFor(i) =>
            /\ NoDevicesAttempt(i)
            /\ (attempts[i] >= max_retries /\ (calls.id = i => Returned))
                  => rows[i].is_processed

\* C21 amended: for a user row with no bus subscribers and an empty device
\* list, every attempt ends in a mark_failure call with "No registered
\* devices" and no push send; the row is permanently failed (is_processed)
\* once max_retries mark_failure calls have been recorded: after max_retries
\* attempts when every call succeeds, one attempt later for each call that
\* fails with a persistence error.
C21_NoDevicesFailsAtCeiling ==
    \A i \in DOMAIN rows :
        NoDeviceFor(i) =>
            /\ NoDevicesAttempt(i)
            /\ rows[i].is_processed <=> rows[i].retry_count = max_retries
            /\ rows[i].retry_count <= attempts[i]
            /\ attempts[i] <= rows[i].retry_count + faults
                              + (IF calls.id = i /\ ~Returned THEN 1 ELSE 0)
            /\ rows[i].retry_count > 0 =>
                  rows[i].last_error \in {"No registered devices",
                                          "Failed to get devices"}

C21_Witness ==
    /\ Len(rows) >= 1
    /\ NoDeviceFor(1)
    /\ Returned /\ calls.id = 1
    /\ calls.publish_to_user = 1
    /\ rows[1].is_processed
    /\ rows[1].last_error = "No registered devices"
    /\ attempts[1] = max_retries
    /\ faults = 0

\* C22 (as claimed): when handle_connection has returned, the sender it
\* registered is no longer in the connection map, and every connection that
\* is still open is still registered.
C22_DisconnectRemovesOwnSender ==
    \A h \in Handlers :
        /\ hpc[h] = "returned" =>
              \A u \in DOMAIN connections : h \notin ToSet(connections[u])
        /\ hpc[h] = "open" =>
              /\ huser[h] \in DOMAIN connections
              /\ h \in ToSet(connections[huser[h]])

\* C23: of the validations of one ticket at most one returns a user, and it
\* returns the user_id the ticket was created for.
C23_TicketAuthenticatesOnce ==
    \A t \in TicketIds :
        /\ upgrades[t] <= 1
        /\ validated[t] \subseteq {issued_to[t]}
        /\ t > minted => validated[t] = {}
        /\ (upgrades[t] = 1 \/ t \in refused) => t \notin DOMAIN tickets

\* a ticket authenticated one upgrade and a second validation of it, made
\* before it could have expired, returned None
C23_Witness ==
    /\ clock = 0
    /\ upgrades[1] = 1 /\ validated[1] = {U1} /\ 1 \in refused
    /\ minted = 2 /\ 2 \in DOMAIN tickets

\* the characters of a log line's token field contain the whole token
Contains(text, token) ==
    \E k \in 0..(Len(text) - Len(token)) :
        SubSeq(text, k + 1, k + Len(token)) = token

\* C24 (as claimed): unless DEBUG_LOG_FCM_TOKENS is set, no log line of the
\* Store, the engine or the push sink contains the complete device token,
\* whatever the token's length.
C24_NoFullTokenInLog ==
    ~log_fcm_tokens => \A line \in log : ~Contains(line.token, device_token)

\* C25: FcmClient::send returns Ok for every 2xx answer whatever its body,
\* InvalidToken for a non-2xx answer whose body holds UNREGISTERED or
\* INVALID_ARGUMENT, SendError for every other non-2xx answer and for a
\* transport failure, and TokenError, with no request sent to FCM, when no
\* bearer could be obtained.
C25_SendClassification ==
    \A c \in Callers : tpc[c] = "sent" =>
        LET reply == sent[c].reply
            result == sent[c].result
        IN  /\ (tlocal[c].src = "error") <=> (result = "TokenError")
            /\ result = "TokenError" => sent[c].requests = 0
            /\ result # "TokenError" => sent[c].requests = 1
            /\ (reply.kind = "http" /\ reply.success) => result = "Ok"
            /\ (reply.kind = "http" /\ ~reply.success /\ reply.invalid_marker)
                  => result = "InvalidToken"
            /\ (reply.kind = "http" /\ ~reply.success /\ ~reply.invalid_marker)
                  => result = "SendError"
            /\ reply.kind = "transport" => result = "SendError"

\* one send was answered 2xx with a body that holds an invalid-token marker,
\* another was answered non-2xx with the marker
C25_Witness ==
    /\ tpc[1] = "sent" /\ sent[1].result = "Ok" /\ sent[1].reply.invalid_marker
    /\ tpc[2] = "sent" /\ sent[2].result = "InvalidToken"

\* the device loop of send_via_push has run for the current row
PushLoopDone == calls.sends # <<>> /\ pc # "send"

\* C26: send_via_push sends to every device found, whatever the earlier sends
\* and remove_device calls returned; it succeeds, with the number of
\* successful sends, iff at least one send succeeded; otherwise it fails with
\* the text of the last error other than InvalidToken, in device order, or
\* with "All push attempts failed" when every device returned InvalidToken.
C26_PushResultFromDeviceSends ==
    /\ pc = "send" => /\ devs # <<>>
                      /\ Len(calls.sends) + Len(devs) = Cardinality(calls.found)
    /\ PushLoopDone =>
          /\ ToSet(calls.sends) = calls.found
          /\ Len(calls.sends) = Cardinality(calls.found)
          /\ calls.remove_err \subseteq ToSet(calls.removes)
          /\ ToSet(calls.removes) = calls.rejected
    /\ (PushLoopDone /\ pc = "mark") =>
          /\ outcome.sp = "success" <=> calls.oks # {}
          /\ outcome.sp = "success" => success_count = Cardinality(calls.oks)
          /\ outcome.sp = "failure" =>
                outcome.reason =
                    IF calls.errors = <<>> THEN "All push attempts failed"
                    ELSE calls.errors[Len(calls.errors)]
          /\ (outcome.sp = "failure" /\ calls.errors = <<>>) =>
                calls.rejected = calls.found
    /\ (PushLoopDone /\ Returned) =>
          /\ calls.mark_success = 1 <=> calls.oks # {}
          /\ calls.mark_failure = 1 <=> calls.oks = {}
          /\ calls.oks = {} =>
                calls.reason =
                    IF calls.errors = <<>> THEN "All push attempts failed"
                    ELSE calls.errors[Len(calls.errors)]

\* two devices: the first send failed with one error, its successor with
\* another, and the row was failed with the text of the second
C26_Witness ==
    /\ PushLoopDone /\ Returned
    /\ calls.errors = <<"TokenError", "SendError">>
    /\ calls.reason = "SendError" /\ calls.mark_failure = 1

\* what process_one records when the push result alone decides: the outcome
\* call, the reason and the DeliveryResult
PushAloneOutcome ==
    IF ~fcm_client THEN <<"failure", "FCM not configured", "Failed">>
    ELSE IF calls.lookup_err THEN <<"failure", "Failed to get devices", "Failed">>
    ELSE IF calls.found = {} THEN <<"failure", "No registered devices", "Failed">>
    ELSE IF calls.oks # {} THEN <<"success", NoError, "Push">>
    ELSE IF calls.errors = <<>>
         THEN <<"failure", "All push attempts failed", "Failed">>
         ELSE <<"failure", calls.errors[Len(calls.errors)], "Failed">>

\* C27: a publish error on a non-broadcast row makes no outcome call; the
\* engine goes on to send_via_push as it does after zero fan-out or without a
\* bus, and the outcome call, its reason and the result are those the push
\* result gives.
C27_BusErrorFallsThroughToPush ==
    /\ (calls.id # 0 /\ calls.bus_reply = "error") =>
          /\ ~is_nil(Recipient)
          /\ calls.publish_to_user = 1
          /\ pc \in {"push", "send"} =>
                calls.mark_success = 0 /\ calls.mark_failure = 0
          /\ (pc = "mark" \/ Returned) =>
                (fcm_client => calls.get_user_devices = 1)
    /\ (calls.id # 0 /\ Returned /\ calls.bus_reply # "delivered") =>
          (~is_nil(Recipient) =>
              /\ calls.mark_success + calls.mark_failure = 1
              /\ <<IF calls.mark_success = 1 THEN "success" ELSE "failure",
                   calls.reason, calls.result>> = PushAloneOutcome)

\* a publish error was followed by a successful push, and the row was
\* recorded as delivered by push
C27_Witness ==
    /\ calls.id # 0 /\ calls.bus_reply = "error" /\ Returned
    /\ calls.oks # {} /\ calls.result = "Push" /\ calls.mark_success = 1
    /\ rows[calls.id].is_processed

\* C28: for each NOTIFY received the listener makes exactly one try_send;
\* when the channel is full or closed the signal is dropped and the listener
\* is back in its receive loop: no state of the channel makes it wait, end
\* its session or reconnect.
C28_OneNonBlockingSendPerNotify ==
    /\ [](signals = received - (IF lstate = "signalling" THEN 1 ELSE 0))
    /\ [](dropped <= signals /\ wake <= WakeCapacity)
    /\ [](lstate = "signalling" => ENABLED listen_loop_try_send)
    /\ [][signals' # signals =>
             /\ lstate = "signalling" /\ lstate' = "subscribed"
             /\ signals' = signals + 1
             /\ last_exit' = last_exit
             /\ IF Closed \/ wake = WakeCapacity
                THEN wake' = wake /\ dropped' = dropped + 1
                ELSE wake' = wake + 1 /\ dropped' = dropped]_vars
    /\ [][(InSession /\ ~InSession') => last_exit' = "recv"]_vars

\* a signal was queued, a later one was dropped by the closed channel, and
\* the listener is in its receive loop, in the session it started with
C28_Witness ==
    /\ Closed /\ wake < WakeCapacity
    /\ signals >= 2 /\ dropped = 1
    /\ lstate = "subscribed" /\ last_exit = "none" /\ waited = 0

\* C29: the listener never terminates.  A failed connect, subscribe or recv
\* takes it to the 5-second sleep and from there to the next connect, any
\* number of times; a session ends only by an error of recv; and try_send is
\* called only inside a session.
C29_ListenerNeverTerminates ==
    /\ [](lstate \in {"disconnected", "connected", "subscribed", "signalling",
                      "backoff"})
    /\ [](ENABLED ListenLoop)
    /\ []((lstate \in {"disconnected", "connected"} /\ last_exit # "none")
             => waited = ReconnectDelay)
    /\ [][lstate' # lstate =>
             \/ lstate = "disconnected" /\ lstate' = "connected"
             \/ lstate = "connected" /\ lstate' = "subscribed"
             \/ lstate = "subscribed" /\ lstate' = "signalling"
             \/ lstate = "signalling" /\ lstate' = "subscribed"
             \/ lstate = "disconnected" /\ lstate' = "backoff"
                   /\ last_exit' = "connect"
             \/ lstate = "connected" /\ lstate' = "backoff"
                   /\ last_exit' = "subscribe"
             \/ lstate = "subscribed" /\ lstate' = "backoff"
                   /\ last_exit' = "recv"
             \/ lstate = "backoff" /\ lstate' = "disconnected"
                   /\ waited' = ReconnectDelay]_vars
    /\ [][signals' # signals => InSession /\ InSession']_vars
    /\ (lstate = "backoff" ~> lstate = "disconnected")
    /\ (lstate = "disconnected" ~> lstate \in {"connected", "backoff"})

\* a session that had received a NOTIFY ended with an error of recv, a
\* connect failed after the sleep, and after a second sleep the listener is
\* about to connect again
C29_Witness ==
    /\ lstate = "disconnected" /\ last_exit = "connect"
    /\ waited = ReconnectDelay /\ signals >= 1 /\ inbox = <<>>

\* C30: a bearer refresh that fails makes get_access_token return TokenError
\* and leaves the cache as it was, empty or stale; the send that asked for
\* the bearer returns TokenError without a request to FCM; and the failure
\* is not remembered: a later call that finds the cache empty or within the
\* margin refreshes again, as the call after the failure does whenever no
\* other call has stored a bearer in between.
C30_RefreshFailureNotCached ==
    /\ [](\A c \in Callers : tlocal[c].src = "error" =>
             /\ tpc[c] \in {"done", "sent"}
             /\ tlocal[c].token = NoToken
             /\ tpc[c] = "sent" => /\ sent[c].result = "TokenError"
                                   /\ sent[c].requests = 0
             /\ token_cache = tlocal[c].found =>
                   \/ token_cache = NoToken
                   \/ token_cache.expires_at <= clock + SafetyMargin)
    /\ [][\A c \in Callers :
             (tlocal[c].src # "error" /\ tlocal'[c].src = "error") =>
                 /\ tpc[c] = "refresh"
                 /\ token_cache' = token_cache]_vars
    /\ [][\A c \in Callers :
             (/\ tpc[c] = "idle" /\ tpc'[c] # "idle"
              /\ \/ token_cache = NoToken
                 \/ token_cache.expires_at <= clock + SafetyMargin)
             => tpc'[c] = "refresh"]_vars

\* a refresh failed while the cache held a stale bearer: the cache still
\* holds it, the send returned TokenError, and the other call, made after
\* the failure, is refreshing
C30_Witness ==
    /\ tpc[1] = "sent" /\ tlocal[1].src = "error"
    /\ sent[1].result = "TokenError" /\ sent[1].requests = 0
    /\ token_cache # NoToken /\ token_cache = tlocal[1].found
    /\ tpc[2] = "refresh" /\ tlocal[2].seen > tlocal[1].seen

\* C31: process_broadcast publishes to the bus topic exactly when a bus is
\* configured and sends to the push topic exactly when a push sink is
\* configured, whatever the other sink returned; it makes no per-user call.
C31_BroadcastTriesEachConfiguredSink ==
    (calls.id # 0 /\ is_nil(Recipient)) =>
        /\ calls.publish_to_user = 0 /\ calls.get_user_devices = 0
        /\ calls.sends = <<>>
        /\ calls.publish_topic <= 1 /\ calls.send_to_topic <= 1
        /\ calls.publish_topic = 1 => bus_client
        /\ calls.send_to_topic = 1 => fcm_client
        /\ pc = "bcast_push" => (bus_client => calls.publish_topic = 1)
        /\ (pc = "mark" \/ Returned) =>
              /\ calls.publish_topic = (IF bus_client THEN 1 ELSE 0)
              /\ calls.send_to_topic = (IF fcm_client THEN 1 ELSE 0)

\* the bus publish succeeded and the push topic send was made all the same
C31_Witness ==
    /\ calls.id # 0 /\ is_nil(Recipient) /\ pc = "mark"
    /\ bus_success /\ calls.publish_topic = 1 /\ calls.send_to_topic = 1
    /\ ~push_success

\* C32: a ticket older than 30 seconds is never accepted: its validation
\* returns None and takes it out of the store; and create_ticket leaves no
\* expired ticket in the store.
C32_ExpiredTicketNeverAccepted ==
    /\ [][\A t \in TicketIds :
             upgrades'[t] # upgrades[t] =>
                 /\ t \in DOMAIN tickets
                 /\ clock - tickets[t].created_at <= TicketTtl
                 /\ t \notin DOMAIN tickets']_vars
    /\ [][\A t \in TicketIds :
             (t \in DOMAIN tickets /\ t \in refused' \ refused)
             => /\ clock - tickets[t].created_at > TicketTtl
                /\ t \notin DOMAIN tickets'
                /\ upgrades' = upgrades /\ validated' = validated]_vars
    /\ [][minted' # minted =>
             /\ minted' \in DOMAIN tickets'
             /\ \A t \in DOMAIN tickets' :
                   clock - tickets'[t].created_at <= TicketTtl]_vars

\* the only ticket created was validated after it had expired: it
\* authenticated nothing and is gone from the store
C32_Witness ==
    /\ minted = 1 /\ 1 \in refused /\ upgrades[1] = 0
    /\ DOMAIN tickets = {} /\ hpc = [h \in Handlers |-> "idle"]

\* a step in which an upgrade request started handle_connection
Opened == \E h \in Handlers : hpc[h] = "idle" /\ hpc'[h] = "open"

\* C33: an upgrade request that carries a ticket is answered 101 only if the
\* ticket validates and then connects as the ticket's user, otherwise 401
\* with no connection, whatever its user_id parameter; a request with
\* neither parameter is answered 400; only a request without a ticket
\* connects by its user_id.
C33_TicketRequestNeverFallsBack ==
    /\ [](last_upgrade.status \in {0, 101, 400, 401})
    /\ [](last_upgrade.status = 400 <=>
             (last_upgrade # NoUpgrade /\ ~last_upgrade.ticket
              /\ ~last_upgrade.user_id))
    /\ [](last_upgrade.status = 401 => last_upgrade.ticket)
    /\ [][Opened =>
             /\ last_upgrade'.status = 101
             /\ IF last_upgrade'.ticket
                THEN \E t \in TicketIds, h \in Handlers :
                        /\ t \in DOMAIN tickets /\ t \notin DOMAIN tickets'
                        /\ upgrades'[t] = upgrades[t] + 1
                        /\ hpc[h] = "idle" /\ hpc'[h] = "open"
                        /\ huser'[h] = issued_to[t]
                ELSE last_upgrade'.user_id /\ upgrades' = upgrades]_vars
    /\ [][(last_upgrade' # last_upgrade /\ last_upgrade'.status # 101) =>
             /\ connections' = connections /\ hpc' = hpc
             /\ upgrades' = upgrades]_vars

\* a request that carried a used ticket and a user_id was answered 401 and
\* opened no connection
C33_Witness ==
    /\ last_upgrade = [ticket |-> TRUE, user_id |-> TRUE, status |-> 401]
    /\ 1 \in refused /\ upgrades[1] = 1 /\ clock = 0
    /\ Cardinality({h \in Handlers : hpc[h] # "idle"}) = 1

\* C34: a non-broadcast row is marked successful only when, in that attempt,
\* the bus reported a fan-out above zero or at least one per-device push
\* succeeded: the success outcome is chosen, and mark_success is called, in
\* no other case.
C34_SuccessNeedsADelivery ==
    /\ (calls.id # 0 /\ ~is_nil(Recipient) /\ pc = "mark"
        /\ outcome.sp = "success") =>
          \/ calls.bus_reply = "delivered" /\ calls.publish_to_user = 1
          \/ calls.oks # {} /\ calls.oks \subseteq ToSet(calls.sends)
    /\ (calls.id # 0 /\ ~is_nil(Recipient) /\ calls.mark_success > 0) =>
          \/ calls.bus_reply = "delivered" /\ calls.publish_to_user = 1
          \/ calls.oks # {} /\ calls.oks \subseteq ToSet(calls.sends)
    /\ (calls.id # 0 /\ ~is_nil(Recipient) /\ Returned
        /\ calls.bus_reply # "delivered" /\ calls.oks = {}) =>
          calls.mark_success = 0 /\ calls.mark_failure = 1

\* the bus reached nobody, two devices were tried, one send failed and one
\* succeeded, and the row was marked successful
C34_Witness ==
    /\ calls.id # 0 /\ ~is_nil(Recipient) /\ Returned
    /\ calls.bus_reply = "zero" /\ calls.mark_success = 1
    /\ Cardinality(calls.oks) = 1 /\ Len(calls.sends) = 2

\* process_one is running for the row calls.id
InProcessOne == pc \in {"bus", "push", "send", "bcast_bus", "bcast_push", "mark"}

\* C35: every process_one invocation ends with an outcome call for its row:
\* whatever the path (bus error, device lookup failure, every token invalid,
\* send errors, no sink configured, broadcast), the step in which process_one
\* returns is a mark_success or mark_failure call for the id it was entered
\* with, and no invocation has returned without one.
C35_EveryInvocationMakesAnOutcomeCall ==
    /\ [][(InProcessOne /\ ~InProcessOne') =>
             /\ pc = "mark" /\ outcome.sp \in {"success", "failure"}
             /\ calls.id = Head(batch) /\ calls'.id = calls.id
             /\ calls.mark_success + calls.mark_failure = 0
             /\ calls'.mark_success + calls'.mark_failure = 1
             /\ calls'.mark_success = 1 <=> outcome.sp = "success"]_vars
    /\ [](InProcessOne => calls.id = Head(batch))
    /\ []((pc \in {"one", "fetch", "wait"} /\ calls.id # 0) =>
             calls.mark_success + calls.mark_failure >= 1)
    /\ [](Returned => calls.mark_success + calls.mark_failure >= 1)

\* the bus answered with an error, then the device lookup failed, and the
\* invocation returned after a mark_failure call
C35_Witness ==
    /\ Returned /\ ~InProcessOne
    /\ calls.bus_reply = "error" /\ calls.lookup_err
    /\ calls.mark_failure = 1 /\ calls.mark_success = 0
    /\ calls.reason = "Failed to get devices"

\* C36: every process_all_pending call terminates when each Store and sink
\* call returns, also when the outcome calls fail while the fetches succeed:
\* a drain that has started reaches the wait of run.
C36_EveryDrainTerminates == (pc # "wait") ~> (pc = "wait")

\* the Sender is dropped and no signal is left in the channel
Orphaned == SenderDropped /\ wake = 0

C38_ConnectionMapWellFormed ==
    /\ \A u \in DOMAIN connections : connections[u] # <<>>
    /\ DOMAIN connections \subseteq Users
    /\ \A u \in Users :
          is_connected(connections, u) <=> connection_count(connections, u) > 0
    /\ total_connections(connections)
          = SumLen([u \in Users |->
                      [k \in 1..connection_count(connections, u) |-> k]], Users)

\* two connections of one user were registered, one of them has called
\* disconnect and returned, and send_to_user has been called for that user
C38_Witness ==
    /\ connection_count(connections, U1) = 2
    /\ total_connections(connections) = 2
    /\ \E h \in Handlers : hpc[h] = "returned" /\ huser[h] = U1
    /\ \E h \in Handlers : hpc[h] = "open" /\ huser[h] = U1
    /\ last_send.user = U1

\* C39: send_to_user leaves the connection map as it is; the number it
\* returns is the number of the user's senders whose send was accepted, 0
\* for a user without a key and never more than connection_count; a sender
\* whose channel is closed counts as failed and is still registered.
C39_SendToUserOnlyCounts ==
    /\ [][last_send' # last_send =>
             LET u == last_send'.user
                 senders == IF u \in DOMAIN connections THEN connections[u]
                            ELSE <<>>
                 open == {k \in DOMAIN senders : senders[k] \notin rx_dropped}
             IN  /\ connections' = connections
                 /\ rx_dropped' = rx_dropped
                 /\ last_send'.success_count = Cardinality(open)
                 /\ last_send'.failed_count = Len(senders) - Cardinality(open)
                 /\ last_send'.success_count <= connection_count(connections', u)
                 /\ u \notin DOMAIN connections => last_send'.success_count = 0]_vars
    /\ [](last_send.user # "none" =>
             /\ last_send.success_count + last_send.failed_count
                   <= connection_count(connections, last_send.user)
             /\ last_send.success_count >= 0 /\ last_send.failed_count >= 0)

\* a user with two registered senders, one of them with a closed channel:
\* send_to_user returned 1, counted one failure, and both are registered
C39_Witness ==
    /\ last_send = [user |-> U1, success_count |-> 1, failed_count |-> 1]
    /\ connection_count(connections, U1) = 2
    /\ \E k \in 1..2 : connections[U1][k] \in rx_dropped

=============================================================================
